---- MODULE Spec2Model ----
(***************************************************************************)
(* Ontology corpus labeling: the word-span selector, the label validator,  *)
(* the labeling form (SentenceLabeler inside LabelerClient), the edit and  *)
(* delete dialogs of the My Labels page (MyLabelsClient), the export page  *)
(* (ExportClient) and the session check of the /labeler layout, with the   *)
(* sentences and labels tables of the external store.                      *)
(*                                                                         *)
(* Specifications: SpecSelector, SpecValidate (the pure functions), Spec   *)
(* and SpecEditing (one sentence, form and dialogs), SpecExport,           *)
(* SpecSession (a tab from its first request), SpecNavigate and            *)
(* SpecNavigateLive (two sentences of different lengths), SpecReload (two  *)
(* properties, loads in flight) and SpecTabs (two tabs of one user).       *)
(*                                                                         *)
(* Encoding of the TypeScript values:                                      *)
(*   [number, number] | null   a pair <<start, end>>, or NullSpan = <<>>   *)
(*   number | null             an integer >= 0, or NullInt = -1            *)
(*   string | null             a string, or NullStr = "null"               *)
(*   T | null (objects)        <<x>>, or None = <<>>                       *)
(* Token indices are 0-based as in the source; TLA+ tuples are 1-based, so *)
(* span[0] and span[1] of the source are span[1] and span[2] here.         *)
(***************************************************************************)
EXTENDS Integers, Sequences, FiniteSets, TLC

\* Largest number of words of a sentence where only selections are made
\* (SpecSelector, SpecValidate, SpecEditing).
MaxTokens == 3

\* Largest number of words of a sentence on the pages that talk to the store
\* (Spec).
MaxWords == 2

NullSpan == <<>>
NullInt == -1
NullStr == "null"
None == <<>>
Some(x) == <<x>>

LabelTypes == {"pdr", "pd", "pr", "p", "n"}

\* The values of a span prop over a sentence of n words.
Spans(n) == {sp \in (0..(n - 1)) \X (0..(n - 1)) : sp[1] <= sp[2]}
SpanOrNull(n) == Spans(n) \cup {NullSpan}

(***************************************************************************)
(* WordSelector                                                            *)
(***************************************************************************)

\* handleWordClick without the toggle-off branch.
HandleWordClick_NoToggle(selection, disabledRange, index) ==
  IF disabledRange # NullSpan /\ index >= disabledRange[1] /\ index <= disabledRange[2]
    THEN [called |-> FALSE, span |-> selection]
  ELSE IF selection = NullSpan
    THEN [called |-> TRUE, span |-> <<index, index>>]
  ELSE IF index < selection[1]
    THEN [called |-> TRUE, span |-> <<index, selection[2]>>]
  ELSE IF index > selection[2]
    THEN [called |-> TRUE, span |-> <<selection[1], index>>]
  ELSE IF index = selection[1]
    THEN [called |-> TRUE, span |-> <<index + 1, selection[2]>>]
  ELSE IF index = selection[2]
    THEN [called |-> TRUE, span |-> <<selection[1], index - 1>>]
  ELSE [called |-> TRUE, span |-> <<index, index>>]

\* handleWordClick where an interior click shrinks from the right instead of
\* collapsing to the clicked word.
HandleWordClick_Interior(selection, disabledRange, index) ==
  IF disabledRange # NullSpan /\ index >= disabledRange[1] /\ index <= disabledRange[2]
    THEN [called |-> FALSE, span |-> selection]
  ELSE IF selection = NullSpan
    THEN [called |-> TRUE, span |-> <<index, index>>]
  ELSE IF selection[1] = index /\ selection[2] = index
    THEN [called |-> TRUE, span |-> NullSpan]
  ELSE IF index < selection[1]
    THEN [called |-> TRUE, span |-> <<index, selection[2]>>]
  ELSE IF index > selection[2]
    THEN [called |-> TRUE, span |-> <<selection[1], index>>]
  ELSE IF index = selection[1]
    THEN [called |-> TRUE, span |-> <<index + 1, selection[2]>>]
  ELSE [called |-> TRUE, span |-> <<selection[1], index - 1>>]

\* handleWordClick without the disabled-range check.
HandleWordClick_NoDisabled(selection, disabledRange, index) ==
  IF selection = NullSpan
    THEN [called |-> TRUE, span |-> <<index, index>>]
  ELSE IF selection[1] = index /\ selection[2] = index
    THEN [called |-> TRUE, span |-> NullSpan]
  ELSE IF index < selection[1]
    THEN [called |-> TRUE, span |-> <<index, selection[2]>>]
  ELSE IF index > selection[2]
    THEN [called |-> TRUE, span |-> <<selection[1], index>>]
  ELSE IF index = selection[1]
    THEN [called |-> TRUE, span |-> <<index + 1, selection[2]>>]
  ELSE IF index = selection[2]
    THEN [called |-> TRUE, span |-> <<selection[1], index - 1>>]
  ELSE [called |-> TRUE, span |-> <<index, index>>]

\* handleWordClick(index) of a WordSelector with props selection and
\* disabledRange: whether onSelect is called, and the span the parent holds
\* afterwards (the argument of onSelect, or the old one when it is not called).
HandleWordClick(selection, disabledRange, index) ==
  IF disabledRange # NullSpan /\ index >= disabledRange[1] /\ index <= disabledRange[2]
    THEN [called |-> FALSE, span |-> selection]
  ELSE IF selection = NullSpan
    THEN [called |-> TRUE, span |-> <<index, index>>]
  ELSE IF selection[1] = index /\ selection[2] = index
    THEN [called |-> TRUE, span |-> NullSpan]
  ELSE IF index < selection[1]
    THEN [called |-> TRUE, span |-> <<index, selection[2]>>]
  ELSE IF index > selection[2]
    THEN [called |-> TRUE, span |-> <<selection[1], index>>]
  ELSE IF index = selection[1]
    THEN [called |-> TRUE, span |-> <<index + 1, selection[2]>>]
  ELSE IF index = selection[2]
    THEN [called |-> TRUE, span |-> <<selection[1], index - 1>>]
  ELSE [called |-> TRUE, span |-> <<index, index>>]

(***************************************************************************)
(* validateLabel                                                           *)
(***************************************************************************)

\* validateLabel that asks nothing of category pd.
ValidateLabel_PdUnchecked(type, subject, object) ==
  IF type = NullStr THEN "Please select a label type"
  ELSE IF type = "pdr" /\ subject = NullSpan
    THEN "Please select subject words for full alignment"
  ELSE IF type = "pdr" /\ object = NullSpan
    THEN "Please select object words for full alignment"
  ELSE IF type = "pr" /\ object = NullSpan
    THEN "Please select object words for correct range"
  ELSE NullStr

\* validateLabel(): the error message, or null when the label can be submitted.
ValidateLabel(type, subject, object) ==
  IF type = NullStr THEN "Please select a label type"
  ELSE IF type = "pdr" /\ subject = NullSpan
    THEN "Please select subject words for full alignment"
  ELSE IF type = "pdr" /\ object = NullSpan
    THEN "Please select object words for full alignment"
  ELSE IF type = "pd" /\ subject = NullSpan
    THEN "Please select subject words for correct domain"
  ELSE IF type = "pr" /\ object = NullSpan
    THEN "Please select object words for correct range"
  ELSE NullStr

\* needsSubject / needsObject: which selectors are rendered.
NeedsSubject(type) == type = "pdr" \/ type = "pd"
NeedsObject(type) == type = "pdr" \/ type = "pr"

(***************************************************************************)
(* Sentence text.  A string is the sequence of its characters, a token the *)
(* sequence of its characters, "" the empty sequence.                      *)
(***************************************************************************)

\* \s of a regular expression, for the characters the corpus texts contain.
IsWhitespace(c) == c \in {" ", "\t", "\n"}

\* text.split(/\s+/) from character i on, with the finished tokens acc and
\* the token cur being read: a run of whitespace ends a token, also an empty
\* one at the start of the text, and the end of the text ends the last token,
\* also an empty one.
RECURSIVE SplitFrom(_, _, _, _)
SplitFrom(text, i, acc, cur) ==
  IF i > Len(text) THEN Append(acc, cur)
  ELSE IF IsWhitespace(text[i])
       THEN IF i > 1 /\ IsWhitespace(text[i - 1])
            THEN SplitFrom(text, i + 1, acc, cur)
            ELSE SplitFrom(text, i + 1, Append(acc, cur), <<>>)
       ELSE SplitFrom(text, i + 1, acc, Append(cur, text[i]))

\* text.split(/\s+/)
Split(text) == SplitFrom(text, 1, <<>>, <<>>)

\* array.slice(start, end) for 0 <= start: the elements at the 0-based
\* indices start .. end - 1 that the array has.
Slice(array, start, end) ==
  SubSeq(array, start + 1, IF end < Len(array) THEN end ELSE Len(array))

\* array.join(separator) of an array of strings
RECURSIVE Join(_, _)
Join(array, separator) ==
  IF array = <<>> THEN <<>>
  ELSE IF Len(array) = 1 THEN array[1]
  ELSE array[1] \o <<separator>> \o Join(Tail(array), separator)

\* WordSelector: the text after "Selected:", absent without a selection.
SelectedText(words, selection) ==
  IF selection # NullSpan
  THEN Some(Join(Slice(words, selection[1], selection[2] + 1), " "))
  ELSE None

\* A label card of the My Labels list: the text after "Subject:" or
\* "Object:", absent when a bound is null.
LabelSpanText(words, start, end) ==
  IF start # NullInt /\ end # NullInt
  THEN Some(Join(Slice(words, start, end + 1), " "))
  ELSE None

\* subject_text / object_text of an export row, when slice ends at end.
ExportSpanText_EndExclusive(text, start, end) ==
  IF start # NullInt /\ end # NullInt
  THEN Some(Join(Slice(Split(text), start, end), " "))
  ELSE None

\* subject_text / object_text of an export row.
ExportSpanText(text, start, end) ==
  IF start # NullInt /\ end # NullInt
  THEN Some(Join(Slice(Split(text), start, end + 1), " "))
  ELSE None

\* The words of the corpus texts of Spec, and the text of n of them.
Letters == <<"a", "b", "c", "d", "e", "f">>
TextOf(n) == Join([k \in 1..n |-> <<Letters[k]>>], " ")

(***************************************************************************)
(* The labels table and the payloads sent to it                            *)
(***************************************************************************)

\* span?.[0] ?? null and span?.[1] ?? null
SpanStart(span) == IF span = NullSpan THEN NullInt ELSE span[1]
SpanEnd(span) == IF span = NullSpan THEN NullInt ELSE span[2]

\* The row handleLabelSubmit inserts, when both bounds are taken from span[0].
InsertPayload_StartTwice(userId, sentence, propertyId, type, subject, object) ==
  [user_id |-> userId, sentence_id |-> sentence.id, property_id |-> propertyId,
   label_type |-> type,
   subject_start |-> SpanStart(subject), subject_end |-> SpanStart(subject),
   object_start |-> SpanStart(object), object_end |-> SpanStart(object)]

\* The row handleLabelSubmit inserts.
InsertPayload(userId, sentence, propertyId, type, subject, object) ==
  [user_id |-> userId, sentence_id |-> sentence.id, property_id |-> propertyId,
   label_type |-> type,
   subject_start |-> SpanStart(subject), subject_end |-> SpanEnd(subject),
   object_start |-> SpanStart(object), object_end |-> SpanEnd(object)]

\* The columns handleSaveEdit updates.
UpdatePayload(type, subject, object) ==
  [label_type |-> type,
   subject_start |-> SpanStart(subject), subject_end |-> SpanEnd(subject),
   object_start |-> SpanStart(object), object_end |-> SpanEnd(object)]

\* The sequence without its k-th element.
RemoveAt(seq, k) == SubSeq(seq, 1, k - 1) \o SubSeq(seq, k + 1, Len(seq))

\* { ...l, <fields> }: the object l with the given fields replaced.
Spread(l, fields) ==
  [f \in DOMAIN l |-> IF f \in DOMAIN fields THEN fields[f] ELSE l[f]]

\* id ... default gen_random_uuid(): an id no row of the table has.
NewId(table) ==
  IF table = {} THEN 1
  ELSE 1 + (CHOOSE m \in {r.id : r \in table} : \A r \in table : r.id <= m)

\* Whether a table without the unique constraint accepts the insert.
InsertAccepted_NoUnique(table, row, user, netOk) ==
  /\ netOk
  /\ row.user_id = user

\* Whether the table accepts the insert: the request reaches the store, the
\* row is the session user's (labels_insert_own) and no row has the same
\* user and sentence (unique(user_id, sentence_id)).
InsertAccepted(table, row, user, netOk) ==
  /\ netOk
  /\ row.user_id = user
  /\ \A r \in table : ~(r.user_id = row.user_id /\ r.sentence_id = row.sentence_id)

\* The rows of the labels table of all users, each with its sentence joined.
SelectLabels_AllUsers(table, sentenceTable, user) ==
  {[id |-> r.id, user_id |-> r.user_id, sentence_id |-> r.sentence_id,
    property_id |-> r.property_id, label_type |-> r.label_type,
    subject_start |-> r.subject_start, subject_end |-> r.subject_end,
    object_start |-> r.object_start, object_end |-> r.object_end,
    sentence |-> CHOOSE s \in sentenceTable : s.id = r.sentence_id]
   : r \in table}

\* labels.select("*, sentence:sentences(*)").eq("user_id", user.id): the
\* user's rows, each with its sentence joined.
SelectLabels(table, sentenceTable, user) ==
  {[id |-> r.id, user_id |-> r.user_id, sentence_id |-> r.sentence_id,
    property_id |-> r.property_id, label_type |-> r.label_type,
    subject_start |-> r.subject_start, subject_end |-> r.subject_end,
    object_start |-> r.object_start, object_end |-> r.object_end,
    sentence |-> CHOOSE s \in sentenceTable : s.id = r.sentence_id]
   : r \in {x \in table : x.user_id = user}}

\* Radio group onValueChange that clears the spans for category n only.
ClearsSpans_OnlyN(value) == value = "n"

\* Radio group onValueChange: the categories whose selection clears both spans.
ClearsSpans(value) == value = "p" \/ value = "n"

\* userId prop of the page clients (the session user) and the one property
\* and sentence of the corpus.
UserId == 1
PropertyId == 1
SentenceId == 1

\* Another user of the corpus, and the label of theirs the store may hold on
\* the sentence: category n, no span.
OtherUserId == 2
OtherLabels ==
  {[id |-> 2, user_id |-> OtherUserId, sentence_id |-> SentenceId,
    property_id |-> PropertyId, label_type |-> "n",
    subject_start |-> NullInt, subject_end |-> NullInt,
    object_start |-> NullInt, object_end |-> NullInt]}

\* ExportClient's selectedProperty "all": no property filter.
AllProperties == 0

VARIABLES
  \* one WordSelector on its own
  wsWords,          \* words.length
  wsSelection,      \* prop selection, held by the parent
  wsDisabledRange,  \* prop disabledRange
  wsLast,           \* the last click: index, props at the click, onSelect called
  \* validateLabel on its own
  vlLabelType, vlSubjectSpan, vlObjectSpan,
  vlResult,         \* "unset" before the call, then the returned value
  \* the external store
  dbSentences,      \* table sentences
  dbLabels,         \* table labels
  \* the page shown: "labeler", "my-labels" or "none"
  page,
  \* LabelerClient
  selectedProperty, sentences, currentIndex,
  sentencesLoading, \* loading
  maxLabels,        \* NullInt for "all"
  pendingLoads,     \* the store's answers to loadSentences, on their way back
  pendingInsert,    \* the store's answers to inserts, on their way back
  \* SentenceLabeler
  labelType, subjectSpan, objectSpan, loading, error, success,
  resetTimers,      \* pending setTimeout callbacks
  inputAfterSubmit, \* history: a category or word was chosen since the last
                    \* successful submit resolved, its reset still pending
  \* MyLabelsClient
  labels, editingLabel, editLabelType, editSubjectSpan, editObjectSpan,
  deletingLabel,
  lastRequest,      \* history: the last update or delete sent, with the tab
                    \* that sent it and the store's answer; seq alternates
                    \* with every request
  \* MyLabelsClient of a second tab of the same user
  tab2Labels, tab2EditingLabel, tab2EditLabelType, tab2EditSubjectSpan,
  tab2EditObjectSpan,
  \* the user of the session (auth.getUser()), NullInt without a session
  sessionUser,
  \* ExportClient
  exportProperty,   \* selectedProperty
  myLabelsOnly,
  exportLoading,    \* loading
  pendingExport,    \* the store's answer to the export query, on its way back
  exportData        \* the content of the file downloaded last

wsVars == <<wsWords, wsSelection, wsDisabledRange, wsLast>>
vlVars == <<vlLabelType, vlSubjectSpan, vlObjectSpan, vlResult>>
dbVars == <<dbSentences, dbLabels>>
clientVars == <<selectedProperty, sentences, currentIndex>>
formVars == <<labelType, subjectSpan, objectSpan, loading, error, success>>
editVars == <<labels, editingLabel, editLabelType, editSubjectSpan, editObjectSpan>>
deleteVars == <<deletingLabel, lastRequest>>
exportVars == <<exportProperty, myLabelsOnly, exportLoading, pendingExport, exportData>>
loadVars == <<sentencesLoading, maxLabels, pendingLoads>>
tab2Vars == <<tab2Labels, tab2EditingLabel, tab2EditLabelType, tab2EditSubjectSpan,
              tab2EditObjectSpan>>
otherVars == <<deleteVars, sessionUser, exportVars, loadVars, tab2Vars>>
restVars == <<otherVars, inputAfterSubmit>>
appVars == <<dbVars, page, clientVars, pendingInsert, formVars, resetTimers, editVars,
             restVars>>
vars == <<wsVars, vlVars, appVars>>

(***************************************************************************)
(* SpecSelector: a WordSelector over wsWords words; the parent stores what *)
(* onSelect passes and may hand down any disabledRange.                    *)
(***************************************************************************)
NoClick == [index |-> NullInt, selection |-> NullSpan, disabledRange |-> NullSpan,
            called |-> FALSE]

WsIdle ==
  /\ wsWords = 0 /\ wsSelection = NullSpan /\ wsDisabledRange = NullSpan
  /\ wsLast = NoClick

VlIdle ==
  /\ vlLabelType = NullStr /\ vlSubjectSpan = NullSpan /\ vlObjectSpan = NullSpan
  /\ vlResult = "unset"

\* LabelerClient and its SentenceLabeler after construction.
LabelerIdle ==
  /\ selectedProperty = NullInt /\ sentences = <<>> /\ currentIndex = 0
  /\ sentencesLoading = FALSE /\ maxLabels = NullInt /\ pendingLoads = <<>>
  /\ pendingInsert = None
  /\ labelType = NullStr /\ subjectSpan = NullSpan /\ objectSpan = NullSpan
  /\ loading = FALSE /\ error = NullStr /\ success = FALSE
  /\ resetTimers = 0 /\ inputAfterSubmit = FALSE

\* No update or delete was sent yet.
NoRequest ==
  [op |-> "none", id |-> NullInt, user_id |-> NullInt, error |-> FALSE,
   tab |-> NullInt, seq |-> 0]

\* MyLabelsClient after construction, both dialogs closed.
DialogsIdle ==
  /\ editingLabel = None /\ editLabelType = NullStr
  /\ editSubjectSpan = NullSpan /\ editObjectSpan = NullSpan
  /\ deletingLabel = None /\ lastRequest = NoRequest

\* No second tab is open.
Tab2Idle ==
  /\ tab2Labels = {} /\ tab2EditingLabel = None /\ tab2EditLabelType = NullStr
  /\ tab2EditSubjectSpan = NullSpan /\ tab2EditObjectSpan = NullSpan

\* ExportClient after construction.
ExportIdle ==
  /\ exportProperty = AllProperties /\ myLabelsOnly = FALSE
  /\ exportLoading = FALSE /\ pendingExport = None /\ exportData = None

\* No page is open.
AppIdle ==
  /\ dbSentences = {} /\ dbLabels = {} /\ page = "none"
  /\ sessionUser = NullInt
  /\ LabelerIdle
  /\ labels = {} /\ DialogsIdle /\ Tab2Idle
  /\ ExportIdle

InitSelector ==
  /\ wsWords \in 1..MaxTokens
  /\ wsSelection = NullSpan
  /\ wsDisabledRange \in SpanOrNull(wsWords)
  /\ wsLast = NoClick
  /\ VlIdle
  /\ AppIdle

\* onClick of the button of word index.
WordClick(index) ==
  /\ wsWords > 0
  /\ index \in 0..(wsWords - 1)
  /\ LET r == HandleWordClick(wsSelection, wsDisabledRange, index) IN
       /\ wsSelection' = r.span
       /\ wsLast' = [index |-> index, selection |-> wsSelection,
                     disabledRange |-> wsDisabledRange, called |-> r.called]
  /\ UNCHANGED <<wsWords, wsDisabledRange, vlVars, appVars>>

\* The parent re-renders the selector with another disabledRange.
SetDisabledRange(range) ==
  /\ wsWords > 0
  /\ range \in SpanOrNull(wsWords)
  /\ range # wsDisabledRange
  /\ wsDisabledRange' = range
  /\ UNCHANGED <<wsWords, wsSelection, wsLast, vlVars, appVars>>

NextSelector ==
  \/ \E index \in 0..(MaxTokens - 1) : WordClick(index)
  \/ \E range \in SpanOrNull(MaxTokens) : SetDisabledRange(range)

SpecSelector == InitSelector /\ [][NextSelector]_vars

(***************************************************************************)
(* SpecValidate: validateLabel applied to every category (or none) and     *)
(* every pair of spans.                                                    *)
(***************************************************************************)
InitValidate ==
  /\ vlLabelType \in LabelTypes \cup {NullStr}
  /\ vlSubjectSpan \in SpanOrNull(MaxTokens)
  /\ vlObjectSpan \in SpanOrNull(MaxTokens)
  /\ vlResult = "unset"
  /\ WsIdle
  /\ AppIdle

Validate ==
  /\ vlResult = "unset"
  /\ vlResult' = ValidateLabel(vlLabelType, vlSubjectSpan, vlObjectSpan)
  /\ UNCHANGED <<vlLabelType, vlSubjectSpan, vlObjectSpan, wsVars, appVars>>

NextValidate == Validate

SpecValidate == InitValidate /\ [][NextValidate]_vars

(***************************************************************************)
(* Spec: a session of the user on the labeling page (LabelerClient with   *)
(* its SentenceLabeler form) or on the My Labels page (MyLabelsClient with *)
(* its edit dialog), over one sentence of 1..MaxWords words.               *)
(***************************************************************************)

\* A row of table sentences.
Sentence(n) == [id |-> SentenceId, property_id |-> PropertyId, text |-> TextOf(n),
                label_count |-> 0]

\* words = sentence.text.split(/\s+/): the indices of the word buttons.
WordIndices(sentence) == 0..(Len(Split(sentence.text)) - 1)

\* The labeling page after the sentences of the selected property were
\* loaded; the store holds no label yet.
InitLabeler(maxWords) ==
  /\ \E n \in 1..maxWords : dbSentences = {Sentence(n)}
  /\ dbLabels = {}
  /\ page = "labeler"
  /\ sessionUser = UserId
  /\ selectedProperty = PropertyId
  /\ sentences = <<CHOOSE s \in dbSentences : TRUE>>
  /\ currentIndex = 0
  /\ sentencesLoading = FALSE /\ maxLabels = NullInt /\ pendingLoads = <<>>
  /\ pendingInsert = None
  /\ labelType = NullStr /\ subjectSpan = NullSpan /\ objectSpan = NullSpan
  /\ loading = FALSE /\ error = NullStr /\ success = FALSE
  /\ resetTimers = 0 /\ inputAfterSubmit = FALSE
  /\ labels = {} /\ DialogsIdle /\ Tab2Idle
  /\ ExportIdle

\* The categories and spans of the labels an earlier visit of the labeling
\* page left in the store: accepted by validateLabel, the two spans apart.
StoredLabels(n) ==
  {l \in LabelTypes \X SpanOrNull(n) \X SpanOrNull(n) :
     /\ ValidateLabel(l[1], l[2], l[3]) = NullStr
     /\ ClearsSpans(l[1]) => l[2] = NullSpan /\ l[3] = NullSpan
     /\ l[2] = NullSpan \/ l[3] = NullSpan \/ l[2][2] < l[3][1] \/ l[3][2] < l[2][1]}

\* The My Labels page after MyLabelsPage loaded the user's one label; the
\* store holds another user's label too.
InitMyLabels(maxWords) ==
  /\ \E n \in 1..maxWords : \E l \in StoredLabels(n) :
       /\ dbSentences = {Sentence(n)}
       /\ dbLabels = {[id |-> 1] @@ InsertPayload(UserId, Sentence(n), PropertyId,
                                                 l[1], l[2], l[3])} \cup OtherLabels
  /\ page = "my-labels"
  /\ sessionUser = UserId
  /\ LabelerIdle
  /\ labels = SelectLabels(dbLabels, dbSentences, sessionUser)
  /\ DialogsIdle /\ Tab2Idle
  /\ ExportIdle

Init == (InitLabeler(MaxWords) \/ InitMyLabels(MaxWords)) /\ WsIdle /\ VlIdle

\* selectedProperty && sentences.length > 0 && currentSentence: the form is
\* rendered.
FormRendered ==
  /\ page = "labeler"
  /\ selectedProperty # NullInt
  /\ Len(sentences) > 0
  /\ currentIndex + 1 \in DOMAIN sentences

\* ---- SentenceLabeler ----

\* RadioGroup onValueChange(value)
OnValueChange(value) ==
  /\ FormRendered
  /\ value \in LabelTypes
  /\ labelType' = value
  /\ error' = NullStr
  /\ subjectSpan' = IF ClearsSpans(value) THEN NullSpan ELSE subjectSpan
  /\ objectSpan' = IF ClearsSpans(value) THEN NullSpan ELSE objectSpan
  /\ inputAfterSubmit' = (resetTimers > 0)
  /\ UNCHANGED <<loading, success, dbVars, page, clientVars, pendingInsert,
                 resetTimers, editVars, wsVars, vlVars, otherVars>>

\* A click of the subject selector whose handler also clears the object span.
SubjectWordClick_ClearsObject(index) ==
  /\ FormRendered
  /\ NeedsSubject(labelType)
  /\ index \in WordIndices(sentences[currentIndex + 1])
  /\ subjectSpan' = HandleWordClick(subjectSpan, objectSpan, index).span
  /\ objectSpan' = NullSpan
  /\ inputAfterSubmit' = (resetTimers > 0)
  /\ UNCHANGED <<labelType, loading, error, success, dbVars, page,
                 clientVars, pendingInsert, resetTimers, editVars, wsVars,
                 vlVars, otherVars>>

\* A click on word index of the subject selector (selection = subjectSpan,
\* onSelect = setSubjectSpan, disabledRange = objectSpan).
SubjectWordClick(index) ==
  /\ FormRendered
  /\ NeedsSubject(labelType)
  /\ index \in WordIndices(sentences[currentIndex + 1])
  /\ subjectSpan' = HandleWordClick(subjectSpan, objectSpan, index).span
  /\ inputAfterSubmit' = (resetTimers > 0)
  /\ UNCHANGED <<labelType, objectSpan, loading, error, success, dbVars, page,
                 clientVars, pendingInsert, resetTimers, editVars, wsVars,
                 vlVars, otherVars>>

\* A click on word index of the object selector (selection = objectSpan,
\* onSelect = setObjectSpan, disabledRange = subjectSpan).
ObjectWordClick(index) ==
  /\ FormRendered
  /\ NeedsObject(labelType)
  /\ index \in WordIndices(sentences[currentIndex + 1])
  /\ objectSpan' = HandleWordClick(objectSpan, subjectSpan, index).span
  /\ inputAfterSubmit' = (resetTimers > 0)
  /\ UNCHANGED <<labelType, subjectSpan, loading, error, success, dbVars, page,
                 clientVars, pendingInsert, resetTimers, editVars, wsVars,
                 vlVars, otherVars>>

\* Answers of inserts in flight at a time.
MaxPendingInserts == 2

\* handleSubmit behind a button that is disabled only without a category.
HandleSubmit_NoLoadingGuard ==
  /\ FormRendered
  /\ labelType # NullStr
  /\ Len(pendingInsert) < MaxPendingInserts
  /\ LET validationError == ValidateLabel(labelType, subjectSpan, objectSpan) IN
       IF validationError # NullStr
       THEN /\ error' = validationError
            /\ UNCHANGED <<loading, dbLabels, pendingInsert>>
       ELSE /\ loading' = TRUE
            /\ error' = NullStr
            /\ \E netOk \in BOOLEAN :
                 LET row == InsertPayload(UserId, sentences[currentIndex + 1],
                                          selectedProperty, labelType,
                                          subjectSpan, objectSpan)
                     ok == InsertAccepted(dbLabels, row, sessionUser, netOk)
                 IN /\ dbLabels' = IF ok
                                   THEN dbLabels \cup {[id |-> NewId(dbLabels)] @@ row}
                                   ELSE dbLabels
                    /\ pendingInsert' = Append(pendingInsert,
                                                [ok |-> ok, currentIndex |-> currentIndex,
                                                 length |-> Len(sentences),
                                                 sentence_id |->
                                                   sentences[currentIndex + 1].id,
                                                 mounted |-> TRUE])
  /\ UNCHANGED <<labelType, subjectSpan, objectSpan, success, dbSentences, page,
                 clientVars, resetTimers, editVars, wsVars, vlVars, restVars>>

\* The Submit Label button (disabled={!labelType || loading}): handleSubmit
\* up to its await, with handleLabelSubmit up to its await. The store decides
\* on the insert when the request is sent; its answer travels back in
\* pendingInsert together with the values the two closures hold
\* (currentIndex, sentences.length, the sentence) and with mounted, whether
\* the form that sent it is still mounted.
HandleSubmit ==
  /\ FormRendered
  /\ labelType # NullStr /\ ~loading
  /\ Len(pendingInsert) < MaxPendingInserts
  /\ LET validationError == ValidateLabel(labelType, subjectSpan, objectSpan) IN
       IF validationError # NullStr
       THEN /\ error' = validationError
            /\ UNCHANGED <<loading, dbLabels, pendingInsert>>
       ELSE /\ loading' = TRUE
            /\ error' = NullStr
            /\ \E netOk \in BOOLEAN :
                 LET row == InsertPayload(UserId, sentences[currentIndex + 1],
                                          selectedProperty, labelType,
                                          subjectSpan, objectSpan)
                     ok == InsertAccepted(dbLabels, row, sessionUser, netOk)
                 IN /\ dbLabels' = IF ok
                                   THEN dbLabels \cup {[id |-> NewId(dbLabels)] @@ row}
                                   ELSE dbLabels
                    /\ pendingInsert' = Append(pendingInsert,
                                                [ok |-> ok, currentIndex |-> currentIndex,
                                                 length |-> Len(sentences),
                                                 sentence_id |->
                                                   sentences[currentIndex + 1].id,
                                                 mounted |-> TRUE])
  /\ UNCHANGED <<labelType, subjectSpan, objectSpan, success, dbSentences, page,
                 clientVars, resetTimers, editVars, wsVars, vlVars, restVars>>

\* The state of a SentenceLabeler after construction (its useState calls).
FormAfterConstruction ==
  /\ labelType' = NullStr /\ subjectSpan' = NullSpan /\ objectSpan' = NullSpan
  /\ loading' = FALSE /\ error' = NullStr /\ success' = FALSE

\* The answers in flight after the form that sent them was unmounted.
Unmounted(pending) == [k \in DOMAIN pending |-> [pending[k] EXCEPT !.mounted = FALSE]]

\* The insert's answer arrives at a handleSubmit that shows the success and
\* schedules no reset.
InsertResolve_NoTimer ==
  /\ page = "labeler"
  /\ UNCHANGED <<page, selectedProperty>>
  /\ \E k \in DOMAIN pendingInsert :
     LET r == pendingInsert[k] IN
       /\ sentences' = IF r.ok
                       THEN [i \in DOMAIN sentences |->
                               IF i - 1 = r.currentIndex
                               THEN [sentences[i] EXCEPT !.label_count = @ + 1]
                               ELSE sentences[i]]
                       ELSE sentences
       /\ currentIndex' = IF r.ok /\ r.currentIndex < r.length - 1
                          THEN r.currentIndex + 1 ELSE currentIndex
       /\ IF ~FormRendered'
          THEN /\ FormAfterConstruction
               /\ resetTimers' = 0 /\ inputAfterSubmit' = FALSE
               /\ pendingInsert' = Unmounted(RemoveAt(pendingInsert, k))
          ELSE IF ~r.mounted
          THEN /\ UNCHANGED <<formVars, resetTimers, inputAfterSubmit>>
               /\ pendingInsert' = RemoveAt(pendingInsert, k)
          ELSE /\ pendingInsert' = RemoveAt(pendingInsert, k)
               /\ loading' = FALSE
               /\ success' = IF r.ok THEN TRUE ELSE success
               /\ resetTimers' = resetTimers
               /\ inputAfterSubmit' = IF r.ok THEN FALSE ELSE inputAfterSubmit
               /\ error' = IF r.ok THEN error
                           ELSE "Failed to submit label. Please try again."
               /\ UNCHANGED <<labelType, subjectSpan, objectSpan>>
  /\ UNCHANGED <<dbVars, editVars, wsVars, vlVars, otherVars>>

\* The insert's answer arrives: handleLabelSubmit after its await, then
\* handleSubmit after its await.  When the form is no longer rendered
\* afterwards it is unmounted: its state is dropped, and its timers and the
\* answers still in flight no longer reach a form.
InsertResolve ==
  /\ page = "labeler"
  /\ UNCHANGED <<page, selectedProperty>>
  /\ \E k \in DOMAIN pendingInsert :
     LET r == pendingInsert[k] IN
       /\ sentences' = IF r.ok
                       THEN [i \in DOMAIN sentences |->
                               IF i - 1 = r.currentIndex
                               THEN [sentences[i] EXCEPT !.label_count = @ + 1]
                               ELSE sentences[i]]
                       ELSE sentences
       /\ currentIndex' = IF r.ok /\ r.currentIndex < r.length - 1
                          THEN r.currentIndex + 1 ELSE currentIndex
       /\ IF ~FormRendered'
          THEN /\ FormAfterConstruction
               /\ resetTimers' = 0 /\ inputAfterSubmit' = FALSE
               /\ pendingInsert' = Unmounted(RemoveAt(pendingInsert, k))
          ELSE IF ~r.mounted
          THEN /\ UNCHANGED <<formVars, resetTimers, inputAfterSubmit>>
               /\ pendingInsert' = RemoveAt(pendingInsert, k)
          ELSE /\ pendingInsert' = RemoveAt(pendingInsert, k)
               /\ loading' = FALSE
               /\ success' = IF r.ok THEN TRUE ELSE success
               /\ resetTimers' = IF r.ok THEN resetTimers + 1 ELSE resetTimers
               /\ inputAfterSubmit' = IF r.ok THEN FALSE ELSE inputAfterSubmit
               /\ error' = IF r.ok THEN error
                           ELSE "Failed to submit label. Please try again."
               /\ UNCHANGED <<labelType, subjectSpan, objectSpan>>
  /\ UNCHANGED <<dbVars, editVars, wsVars, vlVars, otherVars>>

\* The callback of setTimeout, when it resets the category only.
ResetTimerFire_KeepsSpans ==
  /\ page = "labeler"
  /\ resetTimers > 0
  /\ resetTimers' = resetTimers - 1
  /\ success' = FALSE
  /\ labelType' = NullStr
  /\ UNCHANGED <<subjectSpan, objectSpan>>
  /\ inputAfterSubmit' = FALSE
  /\ UNCHANGED <<loading, error, dbVars, page, clientVars, pendingInsert,
                 editVars, wsVars, vlVars, otherVars>>

\* The callback of setTimeout(..., 500) runs.
ResetTimerFire ==
  /\ page = "labeler"
  /\ resetTimers > 0
  /\ resetTimers' = resetTimers - 1
  /\ success' = FALSE
  /\ labelType' = NullStr
  /\ subjectSpan' = NullSpan
  /\ objectSpan' = NullSpan
  /\ inputAfterSubmit' = FALSE
  /\ UNCHANGED <<loading, error, dbVars, page, clientVars, pendingInsert,
                 editVars, wsVars, vlVars, otherVars>>

\* ---- MyLabelsClient ----

\* handleEdit(label) that opens the dialog with the category only.
HandleEdit_NoSpans(label) ==
  /\ page = "my-labels"
  /\ editingLabel = None /\ deletingLabel = None
  /\ label \in labels
  /\ editingLabel' = Some(label)
  /\ editLabelType' = label.label_type
  /\ editSubjectSpan' = NullSpan
  /\ editObjectSpan' = NullSpan
  /\ UNCHANGED <<labels, dbVars, page, clientVars, pendingInsert, formVars,
                 resetTimers, wsVars, vlVars, restVars>>

\* The Edit button of a label card: handleEdit(label)
HandleEdit(label) ==
  /\ page = "my-labels"
  /\ editingLabel = None /\ deletingLabel = None
  /\ label \in labels
  /\ editingLabel' = Some(label)
  /\ editLabelType' = label.label_type
  /\ editSubjectSpan' = IF label.subject_start # NullInt /\ label.subject_end # NullInt
                        THEN <<label.subject_start, label.subject_end>> ELSE NullSpan
  /\ editObjectSpan' = IF label.object_start # NullInt /\ label.object_end # NullInt
                       THEN <<label.object_start, label.object_end>> ELSE NullSpan
  /\ UNCHANGED <<labels, dbVars, page, clientVars, pendingInsert, formVars,
                 resetTimers, wsVars, vlVars, restVars>>

\* onValueChange(value) of an edit dialog that keeps the spans under every
\* category.
EditOnValueChange_KeepsSpans(value) ==
  /\ page = "my-labels"
  /\ editingLabel # None
  /\ value \in LabelTypes
  /\ editLabelType' = value
  /\ UNCHANGED <<editSubjectSpan, editObjectSpan>>
  /\ UNCHANGED <<labels, editingLabel, dbVars, page, clientVars, pendingInsert,
                 formVars, resetTimers, wsVars, vlVars, restVars>>

\* RadioGroup onValueChange(value) of the edit dialog
EditOnValueChange(value) ==
  /\ page = "my-labels"
  /\ editingLabel # None
  /\ value \in LabelTypes
  /\ editLabelType' = value
  /\ editSubjectSpan' = IF ClearsSpans(value) THEN NullSpan ELSE editSubjectSpan
  /\ editObjectSpan' = IF ClearsSpans(value) THEN NullSpan ELSE editObjectSpan
  /\ UNCHANGED <<labels, editingLabel, dbVars, page, clientVars, pendingInsert,
                 formVars, resetTimers, wsVars, vlVars, restVars>>

\* A click on word index of the dialog's subject selector.
EditSubjectWordClick(index) ==
  /\ page = "my-labels"
  /\ editingLabel # None
  /\ NeedsSubject(editLabelType)
  /\ index \in WordIndices(editingLabel[1].sentence)
  /\ editSubjectSpan' = HandleWordClick(editSubjectSpan, editObjectSpan, index).span
  /\ UNCHANGED <<labels, editingLabel, editLabelType, editObjectSpan, dbVars, page,
                 clientVars, pendingInsert, formVars, resetTimers, wsVars,
                 vlVars, restVars>>

\* A click on word index of the dialog's object selector.
EditObjectWordClick(index) ==
  /\ page = "my-labels"
  /\ editingLabel # None
  /\ NeedsObject(editLabelType)
  /\ index \in WordIndices(editingLabel[1].sentence)
  /\ editObjectSpan' = HandleWordClick(editObjectSpan, editSubjectSpan, index).span
  /\ UNCHANGED <<labels, editingLabel, editLabelType, editSubjectSpan, dbVars, page,
                 clientVars, pendingInsert, formVars, resetTimers, wsVars,
                 vlVars, restVars>>

\* handleSaveEdit, when the local list is updated whatever the store answers.
HandleSaveEdit_Optimistic ==
  /\ page = "my-labels"
  /\ editingLabel # None /\ editLabelType # NullStr
  /\ \E netOk \in BOOLEAN :
       LET id == editingLabel[1].id
           fields == UpdatePayload(editLabelType, editSubjectSpan, editObjectSpan)
       IN /\ dbLabels' = IF netOk
                         THEN {IF r.id = id /\ r.user_id = sessionUser
                               THEN Spread(r, fields) ELSE r : r \in dbLabels}
                         ELSE dbLabels
          /\ labels' = {IF l.id = id THEN Spread(l, fields) ELSE l : l \in labels}
          /\ editingLabel' = IF netOk THEN None ELSE editingLabel
          /\ lastRequest' = [op |-> "update", id |-> id,
                             user_id |-> editingLabel[1].user_id, error |-> ~netOk,
                             tab |-> 1, seq |-> 1 - lastRequest.seq]
  /\ UNCHANGED <<editLabelType, editSubjectSpan, editObjectSpan, dbSentences, page,
                 clientVars, pendingInsert, formVars, resetTimers, deletingLabel,
                 sessionUser, tab2Vars, inputAfterSubmit, exportVars,
                 loadVars, wsVars, vlVars>>

\* The Save Changes button: handleSaveEdit, the store's answer included.  The
\* request fails (netOk false) or the store updates the row of that id that
\* labels_update_own shows the session user, without an error if there is
\* none.
HandleSaveEdit ==
  /\ page = "my-labels"
  /\ editingLabel # None /\ editLabelType # NullStr
  /\ \E netOk \in BOOLEAN :
       LET id == editingLabel[1].id
           fields == UpdatePayload(editLabelType, editSubjectSpan, editObjectSpan)
       IN /\ dbLabels' = IF netOk
                         THEN {IF r.id = id /\ r.user_id = sessionUser
                               THEN Spread(r, fields) ELSE r : r \in dbLabels}
                         ELSE dbLabels
          /\ labels' = IF netOk
                       THEN {IF l.id = id THEN Spread(l, fields) ELSE l : l \in labels}
                       ELSE labels
          /\ editingLabel' = IF netOk THEN None ELSE editingLabel
          /\ lastRequest' = [op |-> "update", id |-> id,
                             user_id |-> editingLabel[1].user_id, error |-> ~netOk,
                             tab |-> 1, seq |-> 1 - lastRequest.seq]
  /\ UNCHANGED <<editLabelType, editSubjectSpan, editObjectSpan, dbSentences, page,
                 clientVars, pendingInsert, formVars, resetTimers, deletingLabel,
                 sessionUser, tab2Vars, inputAfterSubmit, exportVars,
                 loadVars, wsVars, vlVars>>

\* Cancel, or the dialog's onOpenChange: setEditingLabel(null)
CloseEditDialog ==
  /\ page = "my-labels"
  /\ editingLabel # None
  /\ editingLabel' = None
  /\ UNCHANGED <<labels, editLabelType, editSubjectSpan, editObjectSpan, dbVars,
                 page, clientVars, pendingInsert, formVars, resetTimers, wsVars,
                 vlVars, restVars>>

\* The Trash button of a label card: setDeletingLabel(label)
SetDeletingLabel(label) ==
  /\ page = "my-labels"
  /\ editingLabel = None /\ deletingLabel = None
  /\ label \in labels
  /\ deletingLabel' = Some(label)
  /\ UNCHANGED <<lastRequest, labels, editingLabel, editLabelType, editSubjectSpan,
                 editObjectSpan, dbVars, page, clientVars, pendingInsert, formVars,
                 resetTimers, sessionUser, tab2Vars, inputAfterSubmit,
                 exportVars, loadVars, wsVars, vlVars>>

\* handleDelete that drops the label from the local list without a request
\* to the store.
HandleDelete_LocalOnly ==
  /\ page = "my-labels"
  /\ deletingLabel # None
  /\ LET id == deletingLabel[1].id IN
       /\ labels' = {l \in labels : l.id # id}
       /\ deletingLabel' = None
       /\ lastRequest' = [op |-> "delete", id |-> id,
                          user_id |-> deletingLabel[1].user_id, error |-> FALSE,
                          tab |-> 1, seq |-> 1 - lastRequest.seq]
  /\ UNCHANGED <<editingLabel, editLabelType, editSubjectSpan, editObjectSpan,
                 dbVars, page, clientVars, pendingInsert, formVars, resetTimers,
                 sessionUser, tab2Vars, inputAfterSubmit, exportVars, loadVars,
                 wsVars, vlVars>>

\* The Delete button of the confirmation: handleDelete, the store's answer
\* included.  The request fails (netOk false) or the store deletes the row
\* of that id that labels_delete_own shows the session user.
HandleDelete ==
  /\ page = "my-labels"
  /\ deletingLabel # None
  /\ \E netOk \in BOOLEAN :
       LET id == deletingLabel[1].id IN
         /\ dbLabels' = IF netOk
                        THEN {r \in dbLabels : ~(r.id = id /\ r.user_id = sessionUser)}
                        ELSE dbLabels
         /\ labels' = IF netOk THEN {l \in labels : l.id # id} ELSE labels
         /\ deletingLabel' = IF netOk THEN None ELSE deletingLabel
         /\ lastRequest' = [op |-> "delete", id |-> id,
                            user_id |-> deletingLabel[1].user_id, error |-> ~netOk,
                            tab |-> 1, seq |-> 1 - lastRequest.seq]
  /\ UNCHANGED <<editingLabel, editLabelType, editSubjectSpan, editObjectSpan,
                 dbSentences, page, clientVars, pendingInsert, formVars, resetTimers,
                 sessionUser, tab2Vars, inputAfterSubmit, exportVars,
                 loadVars, wsVars, vlVars>>

\* Cancel, or the confirmation's onOpenChange: setDeletingLabel(null)
CloseDeleteDialog ==
  /\ page = "my-labels"
  /\ deletingLabel # None
  /\ deletingLabel' = None
  /\ UNCHANGED <<lastRequest, labels, editingLabel, editLabelType, editSubjectSpan,
                 editObjectSpan, dbVars, page, clientVars, pendingInsert, formVars,
                 resetTimers, sessionUser, tab2Vars, inputAfterSubmit,
                 exportVars, loadVars, wsVars, vlVars>>

\* The failure message MyLabelsClient renders: it has no error state and
\* renders none, in the list and in both dialogs.
MyLabelsShowsFailure == FALSE

Next ==
  \/ \E value \in LabelTypes : OnValueChange(value)
  \/ \E index \in 0..(MaxWords - 1) : SubjectWordClick(index)
  \/ \E index \in 0..(MaxWords - 1) : ObjectWordClick(index)
  \/ HandleSubmit
  \/ InsertResolve
  \/ ResetTimerFire
  \/ \E label \in labels : HandleEdit(label)
  \/ \E value \in LabelTypes : EditOnValueChange(value)
  \/ \E index \in 0..(MaxWords - 1) : EditSubjectWordClick(index)
  \/ \E index \in 0..(MaxWords - 1) : EditObjectWordClick(index)
  \/ HandleSaveEdit
  \/ CloseEditDialog
  \/ \E label \in labels : SetDeletingLabel(label)
  \/ HandleDelete
  \/ CloseDeleteDialog

Spec == Init /\ [][Next]_vars

(***************************************************************************)
(* SpecEditing: the editing state of the form and of the dialog under word *)
(* clicks and category changes alone (nothing is submitted or saved), over *)
(* one sentence of 1..MaxTokens words.                                     *)
(***************************************************************************)
InitEditing == (InitLabeler(MaxTokens) \/ InitMyLabels(MaxTokens)) /\ WsIdle /\ VlIdle

NextEditing ==
  \/ \E value \in LabelTypes : OnValueChange(value)
  \/ \E index \in 0..(MaxTokens - 1) : SubjectWordClick(index)
  \/ \E index \in 0..(MaxTokens - 1) : ObjectWordClick(index)
  \/ \E label \in labels : HandleEdit(label)
  \/ \E value \in LabelTypes : EditOnValueChange(value)
  \/ \E index \in 0..(MaxTokens - 1) : EditSubjectWordClick(index)
  \/ \E index \in 0..(MaxTokens - 1) : EditObjectWordClick(index)
  \/ CloseEditDialog

SpecEditing == InitEditing /\ [][NextEditing]_vars

(***************************************************************************)
(* SpecExport: the export page (ExportClient) over a store that holds one  *)
(* sentence and one label of the session user.  The sentence text is any   *)
(* string of at most MaxTextLen characters, or the six-word example of the *)
(* documentation; the label's bounds are any the columns admit.            *)
(***************************************************************************)

\* Largest number of characters of an enumerated sentence text.
MaxTextLen == 3

\* The characters of the enumerated sentence texts.
TextAlphabet == {"a", "b", " "}
Texts(n) == UNION {[1..k -> TextAlphabet] : k \in 0..n}

\* "The cat sat on the mat"
ExampleText ==
  <<"T", "h", "e", " ", "c", "a", "t", " ", "s", "a", "t", " ", "o", "n", " ",
    "t", "h", "e", " ", "m", "a", "t">>

\* The values of a (start, end) pair of columns of a label over n tokens:
\* each column is an index or null.
StoredBounds(n) ==
  {b \in ((0..(n - 1)) \cup {NullInt}) \X ((0..(n - 1)) \cup {NullInt}) :
     b[1] = NullInt \/ b[2] = NullInt \/ b[1] <= b[2]}

\* The category of the stored label whose bounds are given.
RowType(subject, object) ==
  IF subject[1] # NullInt /\ object[1] # NullInt THEN "pdr"
  ELSE IF subject[1] # NullInt THEN "pd"
  ELSE IF object[1] # NullInt THEN "pr"
  ELSE "p"

\* The one row of table properties.
Property ==
  [id |-> PropertyId, name |-> "bornIn", iri |-> "ex:bornIn",
   domain |-> "ex:Person", domain_label |-> "Person",
   range |-> "ex:Place", range_label |-> "Place"]

\* LABEL_OPTIONS.find((o) => o.value === type)?.description
LabelDescription(type) ==
  CASE type = "pdr" -> "Property + Domain + Range all correct"
    [] type = "pd" -> "Property + Domain correct, Range incorrect"
    [] type = "pr" -> "Property + Range correct, Domain incorrect"
    [] type = "p" -> "Property correct, Domain and Range incorrect"
    [] type = "n" -> "No alignment with property"

\* The query of handleExport: the rows labels_select_own shows the session
\* user, filtered as the two controls say, each with its sentence and its
\* property joined.
ExportQuery(table, sentenceTable, user, userId, mineOnly, property) ==
  {[id |-> r.id, user_id |-> r.user_id, sentence_id |-> r.sentence_id,
    property_id |-> r.property_id, label_type |-> r.label_type,
    subject_start |-> r.subject_start, subject_end |-> r.subject_end,
    object_start |-> r.object_start, object_end |-> r.object_end,
    sentence |-> CHOOSE x \in sentenceTable : x.id = r.sentence_id,
    property |-> Property]
   : r \in {x \in table : /\ x.user_id = user
                          /\ mineOnly => x.user_id = userId
                          /\ property # AllProperties => x.property_id = property}}

\* One element of exportData (created_at left out: rows carry no time here).
ExportRow(label) ==
  [label_id |-> label.id, sentence_id |-> label.sentence_id,
   sentence_text |-> label.sentence.text, property_id |-> label.property_id,
   property_name |-> label.property.name, property_iri |-> label.property.iri,
   domain |-> label.property.domain, domain_label |-> label.property.domain_label,
   range |-> label.property.range, range_label |-> label.property.range_label,
   label_type |-> label.label_type,
   label_description |-> LabelDescription(label.label_type),
   subject_start |-> label.subject_start, subject_end |-> label.subject_end,
   subject_text |-> ExportSpanText(label.sentence.text,
                                   label.subject_start, label.subject_end),
   object_start |-> label.object_start, object_end |-> label.object_end,
   object_text |-> ExportSpanText(label.sentence.text,
                                  label.object_start, label.object_end)]

\* The store of the export page: one sentence with the given text and one
\* label of the session user with the given bounds.
ExportStore(text, subject, object) ==
  /\ dbSentences = {[id |-> SentenceId, property_id |-> PropertyId, text |-> text,
                     label_count |-> 1]}
  /\ dbLabels = {[id |-> 1, user_id |-> UserId, sentence_id |-> SentenceId,
                  property_id |-> PropertyId, label_type |-> RowType(subject, object),
                  subject_start |-> subject[1], subject_end |-> subject[2],
                  object_start |-> object[1], object_end |-> object[2]]}

InitExport ==
  /\ \/ \E text \in Texts(MaxTextLen) :
          \E subject \in StoredBounds(MaxTokens), object \in StoredBounds(MaxTokens) :
            ExportStore(text, subject, object)
     \/ \E subject \in StoredBounds(Len(Split(ExampleText))),
           object \in StoredBounds(Len(Split(ExampleText))) :
          ExportStore(ExampleText, subject, object)
  /\ page = "export"
  /\ sessionUser = UserId
  /\ ExportIdle
  /\ LabelerIdle
  /\ labels = {} /\ DialogsIdle /\ Tab2Idle
  /\ WsIdle /\ VlIdle

\* The checkbox "Export only my labels": setMyLabelsOnly(checked === true)
SetMyLabelsOnly(checked) ==
  /\ page = "export"
  /\ checked # myLabelsOnly
  /\ myLabelsOnly' = checked
  /\ UNCHANGED <<exportProperty, exportLoading, pendingExport, exportData, dbVars,
                 page, clientVars, pendingInsert, formVars, resetTimers, editVars,
                 deleteVars, sessionUser, tab2Vars, inputAfterSubmit,
                 loadVars, wsVars, vlVars>>

\* The select "Filter by Property": setSelectedProperty(value)
SetExportProperty(value) ==
  /\ page = "export"
  /\ value # exportProperty
  /\ exportProperty' = value
  /\ UNCHANGED <<myLabelsOnly, exportLoading, pendingExport, exportData, dbVars,
                 page, clientVars, pendingInsert, formVars, resetTimers, editVars,
                 deleteVars, sessionUser, tab2Vars, inputAfterSubmit,
                 loadVars, wsVars, vlVars>>

\* The Download JSON button: handleExport up to its await.  The answer is
\* the rows of the query, or null when the request fails.
HandleExport ==
  /\ page = "export"
  /\ ~exportLoading
  /\ exportLoading' = TRUE
  /\ \E netOk \in BOOLEAN :
       pendingExport' =
         Some(IF netOk
              THEN Some(ExportQuery(dbLabels, dbSentences, sessionUser, UserId,
                                    myLabelsOnly, exportProperty))
              ELSE None)
  /\ UNCHANGED <<exportProperty, myLabelsOnly, exportData, dbVars, page, clientVars,
                 pendingInsert, formVars, resetTimers, editVars, deleteVars,
                 sessionUser, tab2Vars, inputAfterSubmit, loadVars, wsVars, vlVars>>

\* handleExport after its await: the rows are mapped and downloaded.
ExportResolve ==
  /\ page = "export"
  /\ pendingExport # None
  /\ LET data == pendingExport[1] IN
       exportData' = IF data # None
                     THEN Some({ExportRow(label) : label \in data[1]})
                     ELSE exportData
  /\ pendingExport' = None
  /\ exportLoading' = FALSE
  /\ UNCHANGED <<exportProperty, myLabelsOnly, dbVars, page, clientVars,
                 pendingInsert, formVars, resetTimers, editVars, deleteVars,
                 sessionUser, tab2Vars, inputAfterSubmit, loadVars, wsVars, vlVars>>

NextExport ==
  \/ \E checked \in BOOLEAN : SetMyLabelsOnly(checked)
  \/ \E value \in {AllProperties, PropertyId} : SetExportProperty(value)
  \/ HandleExport
  \/ ExportResolve

SpecExport == InitExport /\ [][NextExport]_vars

(***************************************************************************)
(* SpecSession: a browser tab from its first request for a page under      *)
(* /labeler, with or without a session, over a corpus of MaxSentences      *)
(* one-word sentences: the layout's redirect, the labeling page with the   *)
(* loading of the sentences and the Previous / Next buttons, the My Labels *)
(* page and the export page.                                               *)
(***************************************************************************)

\* Number of sentences of the corpus.
MaxSentences == 2

\* The k-th row of table sentences: one word, the texts distinct
\* (unique(sentence, property_id)).
NavSentence(k) ==
  [id |-> k, property_id |-> PropertyId, text |-> <<Letters[k]>>,
   label_count |-> 0]

\* The label the session user may already have on the first sentence.
OwnLabels ==
  {[id |-> 1, user_id |-> UserId, sentence_id |-> SentenceId,
    property_id |-> PropertyId, label_type |-> "n",
    subject_start |-> NullInt, subject_end |-> NullInt,
    object_start |-> NullInt, object_end |-> NullInt]}

\* .order("label_count", { ascending: true }): the rows as a list, rows of
\* equal label_count in the order of their ids.
RECURSIVE OrderByLabelCount(_)
OrderByLabelCount(rows) ==
  IF rows = {} THEN <<>>
  ELSE LET first == CHOOSE r \in rows :
                      \A x \in rows : \/ r.label_count < x.label_count
                                      \/ r.label_count = x.label_count /\ r.id <= x.id
       IN <<first>> \o OrderByLabelCount(rows \ {first})

\* The query of loadSentences.
LoadQuery(sentenceTable, propertyId, max) ==
  OrderByLabelCount({r \in sentenceTable :
                       /\ r.property_id = propertyId
                       /\ max # NullInt => r.label_count <= max})

InitSession ==
  /\ dbSentences = {NavSentence(k) : k \in 1..MaxSentences}
  /\ dbLabels \in {OtherLabels, OwnLabels \cup OtherLabels}
  /\ page = "none"
  /\ sessionUser \in {NullInt, UserId}
  /\ LabelerIdle
  /\ labels = {} /\ DialogsIdle /\ Tab2Idle
  /\ ExportIdle
  /\ WsIdle /\ VlIdle

\* A request for a page under /labeler whose layout renders the page without
\* looking at the session.
RequestPage_NoRedirect(target) ==
  /\ page = "none"
  /\ target \in {"labeler", "my-labels", "export"}
  /\ page' = target
  /\ labels' = IF target = "my-labels"
               THEN SelectLabels(dbLabels, dbSentences, sessionUser)
               ELSE labels
  /\ UNCHANGED <<dbVars, clientVars, pendingInsert, formVars, resetTimers,
                 editingLabel, editLabelType, editSubjectSpan, editObjectSpan,
                 deleteVars, sessionUser, tab2Vars, inputAfterSubmit,
                 exportVars, loadVars, wsVars, vlVars>>

\* The first request of the tab for a page under /labeler: LabelerLayout
\* redirects to /auth/login without a session user; otherwise the page is
\* rendered with its client after construction (MyLabelsPage hands its
\* client the user's labels).
RequestPage(target) ==
  /\ page = "none"
  /\ target \in {"labeler", "my-labels", "export"}
  /\ page' = IF sessionUser = NullInt THEN "login" ELSE target
  /\ labels' = IF sessionUser # NullInt /\ target = "my-labels"
               THEN SelectLabels(dbLabels, dbSentences, sessionUser)
               ELSE labels
  /\ UNCHANGED <<dbVars, clientVars, pendingInsert, formVars, resetTimers,
                 editingLabel, editLabelType, editSubjectSpan, editObjectSpan,
                 deleteVars, sessionUser, tab2Vars, inputAfterSubmit,
                 exportVars, loadVars, wsVars, vlVars>>

\* Loads of sentences in flight at a time.
MaxPendingLoads == 2

\* PropertySelector onSelect = setSelectedProperty, and the effect it
\* triggers: loadSentences up to its await.  The answer is the rows of the
\* query, or null when the request fails.
SelectProperty(property) ==
  /\ page = "labeler"
  /\ property # selectedProperty
  /\ Len(pendingLoads) < MaxPendingLoads
  /\ selectedProperty' = property
  /\ sentencesLoading' = TRUE
  /\ \E netOk \in BOOLEAN :
       pendingLoads' =
         Append(pendingLoads,
                IF netOk THEN Some(LoadQuery(dbSentences, property, maxLabels))
                ELSE None)
  /\ UNCHANGED <<sentences, currentIndex, maxLabels, dbVars, page, pendingInsert,
                 formVars, resetTimers, editVars, deleteVars, sessionUser,
                 tab2Vars, inputAfterSubmit,
                 exportVars, wsVars, vlVars>>

\* loadSentences after its await: setSentences(data || []), setCurrentIndex(0).
\* With an empty list the form is unmounted.
LoadResolve ==
  /\ page = "labeler"
  /\ UNCHANGED <<page, selectedProperty>>
  /\ \E k \in DOMAIN pendingLoads :
       /\ sentences' = IF pendingLoads[k] # None THEN pendingLoads[k][1] ELSE <<>>
       /\ pendingLoads' = RemoveAt(pendingLoads, k)
  /\ currentIndex' = 0
  /\ sentencesLoading' = FALSE
  /\ IF ~FormRendered'
     THEN /\ FormAfterConstruction
          /\ resetTimers' = 0 /\ inputAfterSubmit' = FALSE
          /\ pendingInsert' = Unmounted(pendingInsert)
     ELSE UNCHANGED <<formVars, resetTimers, inputAfterSubmit, pendingInsert>>
  /\ UNCHANGED <<maxLabels, dbVars, editVars, deleteVars, sessionUser,
                 tab2Vars, exportVars,
                 wsVars, vlVars>>

\* The Previous button: setCurrentIndex(Math.max(0, currentIndex - 1))
HandlePrevious ==
  /\ FormRendered
  /\ currentIndex # 0
  /\ currentIndex' = IF currentIndex - 1 > 0 THEN currentIndex - 1 ELSE 0
  /\ UNCHANGED <<selectedProperty, sentences, dbVars, page, pendingInsert, formVars,
                 resetTimers, editVars, wsVars, vlVars, restVars>>

\* The Next button:
\* setCurrentIndex(Math.min(sentences.length - 1, currentIndex + 1))
HandleNext ==
  /\ FormRendered
  /\ currentIndex # Len(sentences) - 1
  /\ currentIndex' = IF currentIndex + 1 < Len(sentences) - 1
                     THEN currentIndex + 1 ELSE Len(sentences) - 1
  /\ UNCHANGED <<selectedProperty, sentences, dbVars, page, pendingInsert, formVars,
                 resetTimers, editVars, wsVars, vlVars, restVars>>

NextSession ==
  \/ \E target \in {"labeler", "my-labels", "export"} : RequestPage(target)
  \/ SelectProperty(PropertyId)
  \/ LoadResolve
  \/ HandlePrevious
  \/ HandleNext
  \/ \E value \in LabelTypes : OnValueChange(value)
  \/ SubjectWordClick(0)
  \/ ObjectWordClick(0)
  \/ HandleSubmit
  \/ InsertResolve
  \/ ResetTimerFire
  \/ \E label \in labels : HandleEdit(label)
  \/ \E value \in LabelTypes : EditOnValueChange(value)
  \/ EditSubjectWordClick(0)
  \/ EditObjectWordClick(0)
  \/ HandleSaveEdit
  \/ CloseEditDialog
  \/ \E label \in labels : SetDeletingLabel(label)
  \/ HandleDelete
  \/ CloseDeleteDialog
  \/ \E checked \in BOOLEAN : SetMyLabelsOnly(checked)
  \/ \E value \in {AllProperties, PropertyId} : SetExportProperty(value)
  \/ HandleExport
  \/ ExportResolve

SpecSession == InitSession /\ [][NextSession]_vars

(***************************************************************************)
(* SpecNavigate: the labeling page over a loaded list of two sentences of  *)
(* different lengths, with the form (categories pd and n, the subject      *)
(* selector), the Previous / Next buttons and the auto-advance of a        *)
(* successful submit.                                                      *)
(***************************************************************************)

\* The k-th row of table sentences: the first sentence has MaxWords words,
\* the second has one.
MixedSentence(k) ==
  [id |-> k, property_id |-> PropertyId,
   text |-> TextOf(IF k = 1 THEN MaxWords ELSE 1), label_count |-> 0]

\* The labeling page after the two sentences of the selected property were
\* loaded; the store holds no label yet.
InitNavigate ==
  /\ dbSentences = {MixedSentence(1), MixedSentence(2)}
  /\ dbLabels = {}
  /\ page = "labeler"
  /\ sessionUser = UserId
  /\ selectedProperty = PropertyId
  /\ sentences = LoadQuery(dbSentences, PropertyId, NullInt)
  /\ currentIndex = 0
  /\ sentencesLoading = FALSE /\ maxLabels = NullInt /\ pendingLoads = <<>>
  /\ pendingInsert = None
  /\ labelType = NullStr /\ subjectSpan = NullSpan /\ objectSpan = NullSpan
  /\ loading = FALSE /\ error = NullStr /\ success = FALSE
  /\ resetTimers = 0 /\ inputAfterSubmit = FALSE
  /\ labels = {} /\ DialogsIdle /\ Tab2Idle
  /\ ExportIdle
  /\ WsIdle /\ VlIdle

NextNavigate ==
  \/ HandlePrevious
  \/ HandleNext
  \/ \E value \in {"pd", "n"} : OnValueChange(value)
  \/ \E index \in 0..(MaxWords - 1) : SubjectWordClick(index)
  \/ HandleSubmit
  \/ InsertResolve
  \/ ResetTimerFire

SpecNavigate == InitNavigate /\ [][NextNavigate]_vars

(***************************************************************************)
(* SpecReload: the labeling page after construction over two properties,   *)
(* the first with two one-word sentences and the second with one:          *)
(* the property selector, loads that resolve in any order, the Previous /  *)
(* Next buttons and the form with category n, one insert in flight.        *)
(***************************************************************************)

\* The second row of table properties.
SecondPropertyId == 2

\* The k-th row of table sentences: the first two rows belong to the first
\* property, the third to the second; one word each, the texts distinct.
ReloadSentence(k) ==
  [id |-> k, property_id |-> IF k = 3 THEN SecondPropertyId ELSE PropertyId,
   text |-> <<Letters[k]>>, label_count |-> 0]

\* LabelerClient after construction.
InitReload ==
  /\ dbSentences = {ReloadSentence(1), ReloadSentence(2), ReloadSentence(3)}
  /\ dbLabels = {}
  /\ page = "labeler"
  /\ sessionUser = UserId
  /\ LabelerIdle
  /\ labels = {} /\ DialogsIdle /\ Tab2Idle
  /\ ExportIdle
  /\ WsIdle /\ VlIdle

NextReload ==
  \/ \E property \in {PropertyId, SecondPropertyId} : SelectProperty(property)
  \/ LoadResolve
  \/ HandlePrevious
  \/ HandleNext
  \/ OnValueChange("n")
  \/ pendingInsert = None /\ HandleSubmit
  \/ InsertResolve
  \/ ResetTimerFire

SpecReload == InitReload /\ [][NextReload]_vars

(***************************************************************************)
(* SpecTabs: the My Labels page of one user in two tabs over the same      *)
(* store: two labels of the user on two one-word sentences and a label of  *)
(* another user.  The first tab edits (categories pd and n, the subject    *)
(* selector) and deletes; the second tab edits the user's first label.     *)
(***************************************************************************)

\* The two labels of the session user: pd with a subject span on the first
\* sentence, n on the second.
TabsLabels ==
  {[id |-> 1] @@ InsertPayload(UserId, NavSentence(1), PropertyId, "pd",
                               <<0, 0>>, NullSpan),
   [id |-> 3] @@ InsertPayload(UserId, NavSentence(2), PropertyId, "n",
                               NullSpan, NullSpan)}

\* Both tabs after MyLabelsPage handed each client the user's labels.
InitTabs ==
  /\ dbSentences = {NavSentence(1), NavSentence(2)}
  /\ dbLabels = TabsLabels \cup OtherLabels
  /\ page = "my-labels"
  /\ sessionUser = UserId
  /\ LabelerIdle
  /\ labels = SelectLabels(dbLabels, dbSentences, sessionUser)
  /\ DialogsIdle
  /\ tab2Labels = SelectLabels(dbLabels, dbSentences, sessionUser)
  /\ tab2EditingLabel = None /\ tab2EditLabelType = NullStr
  /\ tab2EditSubjectSpan = NullSpan /\ tab2EditObjectSpan = NullSpan
  /\ ExportIdle
  /\ WsIdle /\ VlIdle

\* handleEdit(label) in the second tab
Tab2HandleEdit(label) ==
  /\ page = "my-labels"
  /\ tab2EditingLabel = None
  /\ label \in tab2Labels
  /\ tab2EditingLabel' = Some(label)
  /\ tab2EditLabelType' = label.label_type
  /\ tab2EditSubjectSpan' =
       IF label.subject_start # NullInt /\ label.subject_end # NullInt
       THEN <<label.subject_start, label.subject_end>> ELSE NullSpan
  /\ tab2EditObjectSpan' =
       IF label.object_start # NullInt /\ label.object_end # NullInt
       THEN <<label.object_start, label.object_end>> ELSE NullSpan
  /\ UNCHANGED <<tab2Labels, dbVars, page, clientVars, pendingInsert, formVars,
                 resetTimers, editVars, deleteVars, sessionUser, inputAfterSubmit,
                 exportVars, loadVars, wsVars, vlVars>>

\* RadioGroup onValueChange(value) of the edit dialog in the second tab
Tab2EditOnValueChange(value) ==
  /\ page = "my-labels"
  /\ tab2EditingLabel # None
  /\ value \in LabelTypes
  /\ tab2EditLabelType' = value
  /\ tab2EditSubjectSpan' = IF ClearsSpans(value) THEN NullSpan
                            ELSE tab2EditSubjectSpan
  /\ tab2EditObjectSpan' = IF ClearsSpans(value) THEN NullSpan
                           ELSE tab2EditObjectSpan
  /\ UNCHANGED <<tab2Labels, tab2EditingLabel, dbVars, page, clientVars,
                 pendingInsert, formVars, resetTimers, editVars, deleteVars,
                 sessionUser, inputAfterSubmit, exportVars, loadVars, wsVars, vlVars>>

\* handleSaveEdit in a second tab over a store that keeps a row another
\* session changed since the tab loaded it.
Tab2HandleSaveEdit_FirstWins ==
  /\ page = "my-labels"
  /\ tab2EditingLabel # None /\ tab2EditLabelType # NullStr
  /\ \E netOk \in BOOLEAN :
       LET id == tab2EditingLabel[1].id
           fields == UpdatePayload(tab2EditLabelType, tab2EditSubjectSpan,
                                   tab2EditObjectSpan)
       IN /\ dbLabels' = IF netOk
                         THEN {IF /\ r.id = id /\ r.user_id = sessionUser
                                  /\ r.label_type = tab2EditingLabel[1].label_type
                               THEN Spread(r, fields) ELSE r : r \in dbLabels}
                         ELSE dbLabels
          /\ tab2Labels' = IF netOk
                           THEN {IF l.id = id THEN Spread(l, fields) ELSE l :
                                   l \in tab2Labels}
                           ELSE tab2Labels
          /\ tab2EditingLabel' = IF netOk THEN None ELSE tab2EditingLabel
          /\ lastRequest' = [op |-> "update", id |-> id,
                             user_id |-> tab2EditingLabel[1].user_id,
                             error |-> ~netOk, tab |-> 2,
                             seq |-> 1 - lastRequest.seq]
  /\ UNCHANGED <<tab2EditLabelType, tab2EditSubjectSpan, tab2EditObjectSpan,
                 dbSentences, page, clientVars, pendingInsert, formVars,
                 resetTimers, editVars, deletingLabel, sessionUser,
                 inputAfterSubmit, exportVars, loadVars, wsVars, vlVars>>

\* handleSaveEdit in the second tab, the store's answer included.
Tab2HandleSaveEdit ==
  /\ page = "my-labels"
  /\ tab2EditingLabel # None /\ tab2EditLabelType # NullStr
  /\ \E netOk \in BOOLEAN :
       LET id == tab2EditingLabel[1].id
           fields == UpdatePayload(tab2EditLabelType, tab2EditSubjectSpan,
                                   tab2EditObjectSpan)
       IN /\ dbLabels' = IF netOk
                         THEN {IF r.id = id /\ r.user_id = sessionUser
                               THEN Spread(r, fields) ELSE r : r \in dbLabels}
                         ELSE dbLabels
          /\ tab2Labels' = IF netOk
                           THEN {IF l.id = id THEN Spread(l, fields) ELSE l :
                                   l \in tab2Labels}
                           ELSE tab2Labels
          /\ tab2EditingLabel' = IF netOk THEN None ELSE tab2EditingLabel
          /\ lastRequest' = [op |-> "update", id |-> id,
                             user_id |-> tab2EditingLabel[1].user_id,
                             error |-> ~netOk, tab |-> 2,
                             seq |-> 1 - lastRequest.seq]
  /\ UNCHANGED <<tab2EditLabelType, tab2EditSubjectSpan, tab2EditObjectSpan,
                 dbSentences, page, clientVars, pendingInsert, formVars,
                 resetTimers, editVars, deletingLabel, sessionUser,
                 inputAfterSubmit, exportVars, loadVars, wsVars, vlVars>>

\* Cancel, or the dialog's onOpenChange, in the second tab
Tab2CloseEditDialog ==
  /\ page = "my-labels"
  /\ tab2EditingLabel # None
  /\ tab2EditingLabel' = None
  /\ UNCHANGED <<tab2Labels, tab2EditLabelType, tab2EditSubjectSpan,
                 tab2EditObjectSpan, dbVars, page, clientVars, pendingInsert,
                 formVars, resetTimers, editVars, deleteVars, sessionUser,
                 inputAfterSubmit, exportVars, loadVars, wsVars, vlVars>>

NextTabs ==
  \/ \E label \in labels : HandleEdit(label)
  \/ \E value \in {"pd", "n"} : EditOnValueChange(value)
  \/ EditSubjectWordClick(0)
  \/ HandleSaveEdit
  \/ CloseEditDialog
  \/ \E label \in labels : SetDeletingLabel(label)
  \/ HandleDelete
  \/ CloseDeleteDialog
  \/ \E label \in tab2Labels : label.id = 1 /\ Tab2HandleEdit(label)
  \/ \E value \in {"p", "n"} : Tab2EditOnValueChange(value)
  \/ Tab2HandleSaveEdit
  \/ Tab2CloseEditDialog

SpecTabs == InitTabs /\ [][NextTabs]_vars

(***************************************************************************)
(* SpecNavigateLive: SpecNavigate with the timers of the browser: a        *)
(* callback scheduled by setTimeout runs once its delay has passed, so the *)
(* callback of a pending reset timer is not postponed forever.             *)
(***************************************************************************)
SpecNavigateLive ==
  InitNavigate /\ [][NextNavigate]_vars /\ WF_vars(ResetTimerFire)

(***************************************************************************)
(* Properties                                                              *)
(***************************************************************************)

\* The last click of the lone selector fell outside the disabled range.
LastClickEnabled ==
  /\ wsLast.index # NullInt
  /\ \/ wsLast.disabledRange = NullSpan
     \/ wsLast.index < wsLast.disabledRange[1]
     \/ wsLast.index > wsLast.disabledRange[2]

\* C1: after a click on an index i outside the disabled range, the selection
\* is the one the click policy prescribes for the selection before the click:
\* none -> [i,i]; [i,i] -> none; i < s -> [i,e]; i > e -> [s,i]; i = s < e ->
\* [s+1,e]; i = e > s -> [s,e-1]; s < i < e -> [i,i].
C1_ClickPolicy ==
  LastClickEnabled =>
    LET i == wsLast.index
        before == wsLast.selection
    IN IF before = NullSpan THEN wsSelection = <<i, i>>
       ELSE LET s == before[1]
                e == before[2]
            IN /\ (s = i /\ e = i) => wsSelection = NullSpan
               /\ i < s => wsSelection = <<i, e>>
               /\ i > e => wsSelection = <<s, i>>
               /\ (i = s /\ s < e) => wsSelection = <<s + 1, e>>
               /\ (i = e /\ s < e) => wsSelection = <<s, e - 1>>
               /\ (s < i /\ i < e) => wsSelection = <<i, i>>

\* A click strictly inside [0,2] collapsed the selection to the clicked word.
C1_Witness ==
  /\ LastClickEnabled
  /\ wsLast.selection = <<0, 2>> /\ wsLast.index = 1
  /\ wsSelection = <<1, 1>>

\* C2: in the labeling form and in the edit dialog the subject span and the
\* object span share no token index.
C2_SpansNeverOverlap ==
  /\ (subjectSpan # NullSpan /\ objectSpan # NullSpan)
       => (subjectSpan[2] < objectSpan[1] \/ objectSpan[2] < subjectSpan[1])
  /\ (editingLabel # None /\ editSubjectSpan # NullSpan /\ editObjectSpan # NullSpan)
       => (editSubjectSpan[2] < editObjectSpan[1] \/ editObjectSpan[2] < editSubjectSpan[1])

\* C3: validateLabel rejects pdr iff a span is missing, pd iff the subject
\* span is missing, pr iff the object span is missing, and never p or n.
C3_ValidatorRules ==
  vlResult # "unset" =>
    LET rejected == vlResult # NullStr IN
      /\ vlLabelType = "pdr" =>
           (rejected <=> (vlSubjectSpan = NullSpan \/ vlObjectSpan = NullSpan))
      /\ vlLabelType = "pd" => (rejected <=> vlSubjectSpan = NullSpan)
      /\ vlLabelType = "pr" => (rejected <=> vlObjectSpan = NullSpan)
      /\ vlLabelType \in {"p", "n"} => ~rejected

\* pd with an object span but no subject span was rejected.
C3_Witness ==
  /\ vlLabelType = "pd" /\ vlSubjectSpan = NullSpan /\ vlObjectSpan # NullSpan
  /\ vlResult = "Please select subject words for correct domain"

\* C4: every row of the labels table has, for category pdr or pd, both
\* subject bounds set with start <= end and, for category pdr or pr, both
\* object bounds set with start <= end.
C4_RequiredSpansStored ==
  \A r \in dbLabels :
    /\ r.label_type \in {"pdr", "pd"} =>
         /\ r.subject_start # NullInt /\ r.subject_end # NullInt
         /\ r.subject_start <= r.subject_end
    /\ r.label_type \in {"pdr", "pr"} =>
         /\ r.object_start # NullInt /\ r.object_end # NullInt
         /\ r.object_start <= r.object_end

\* C5: the selection of a selector that started with none is none or a pair
\* [start,end] with 0 <= start <= end <= N-1.
C5_SelectionInRange ==
  \/ wsSelection = NullSpan
  \/ /\ Len(wsSelection) = 2
     /\ 0 <= wsSelection[1]
     /\ wsSelection[1] <= wsSelection[2]
     /\ wsSelection[2] <= wsWords - 1

\* Clicks have selected the whole sentence of MaxTokens words.
C5_Witness ==
  /\ wsWords = MaxTokens
  /\ wsLast.index # NullInt
  /\ wsSelection = <<0, MaxTokens - 1>>

\* C6: a click inside the disabled range does not call onSelect and leaves
\* the selection as it was.
C6_DisabledClickNoOp ==
  (/\ wsLast.index # NullInt
   /\ wsLast.disabledRange # NullSpan
   /\ wsLast.disabledRange[1] <= wsLast.index
   /\ wsLast.index <= wsLast.disabledRange[2])
    => (~wsLast.called /\ wsSelection = wsLast.selection)

\* A disabled word was clicked while a selection was present.
C6_Witness ==
  /\ wsLast.index # NullInt
  /\ wsLast.disabledRange # NullSpan
  /\ wsLast.disabledRange[1] <= wsLast.index
  /\ wsLast.index <= wsLast.disabledRange[2]
  /\ wsLast.selection # NullSpan
  /\ wsSelection = wsLast.selection

\* C7: whenever the subject selection of the form is exactly [i,i], a click
\* on token i clears it.
C7_ToggleOff ==
  (FormRendered /\ NeedsSubject(labelType)) =>
    \A i \in WordIndices(sentences[currentIndex + 1]) :
      subjectSpan = <<i, i>> =>
        HandleWordClick(subjectSpan, objectSpan, i).span = NullSpan

\* C8: selecting p or n, in the form or in the dialog, sets both spans of
\* the editing state to null and sends nothing to the store; selecting pdr,
\* pd or pr leaves both spans as they are.
C8_CategoryChange ==
  [][/\ \A value \in {"p", "n"} :
          /\ OnValueChange(value) =>
               /\ subjectSpan' = NullSpan /\ objectSpan' = NullSpan
               /\ dbLabels' = dbLabels /\ pendingInsert' = pendingInsert
          /\ EditOnValueChange(value) =>
               /\ editSubjectSpan' = NullSpan /\ editObjectSpan' = NullSpan
               /\ dbLabels' = dbLabels /\ labels' = labels
     /\ \A value \in {"pdr", "pd", "pr"} :
          /\ OnValueChange(value) =>
               /\ subjectSpan' = subjectSpan /\ objectSpan' = objectSpan
          /\ EditOnValueChange(value) =>
               /\ editSubjectSpan' = editSubjectSpan
               /\ editObjectSpan' = editObjectSpan]_vars

\* The dialog was opened on a stored pdr label, n was selected: both spans of
\* the dialog are null and the stored label still has its spans.
C8_Witness ==
  /\ page = "my-labels"
  /\ editingLabel # None
  /\ editingLabel[1].label_type = "pdr"
  /\ editLabelType = "n"
  /\ editSubjectSpan = NullSpan /\ editObjectSpan = NullSpan
  /\ \E r \in dbLabels : r.label_type = "pdr" /\ r.subject_start # NullInt
                         /\ r.object_start # NullInt

\* The spans category type requires are present.
RequiredSpansPresent(type, subject, object) ==
  /\ type \in {"pdr", "pd", "pr", "p", "n"}
  /\ type \in {"pdr", "pd"} => subject # NullSpan
  /\ type \in {"pdr", "pr"} => object # NullSpan

\* C9: the form sends an insert only from a state with a category and the
\* spans it requires; a submit without them sends nothing, sets the error
\* message and changes nothing else; a submit with them is sent, whatever
\* error message is shown, and a validation message never leaves the form
\* loading.
C9_SubmitValidation ==
  /\ [][/\ (page = "labeler" /\ ((pendingInsert = None /\ pendingInsert' # None)
                                  \/ dbLabels' # dbLabels))
             => RequiredSpansPresent(labelType, subjectSpan, objectSpan)
        /\ (HandleSubmit /\ ~RequiredSpansPresent(labelType, subjectSpan, objectSpan))
             => /\ error' \notin {NullStr, "Failed to submit label. Please try again."}
                /\ UNCHANGED <<labelType, subjectSpan, objectSpan, loading, success,
                               dbVars, pendingInsert, clientVars, resetTimers>>
        /\ (HandleSubmit /\ RequiredSpansPresent(labelType, subjectSpan, objectSpan))
             => /\ pendingInsert = None /\ pendingInsert' # None
                /\ loading' /\ error' = NullStr]_vars
  /\ [](error \notin {NullStr, "Failed to submit label. Please try again."} => ~loading)

\* pd was submitted without a subject span: the message is shown, nothing
\* was inserted and the form is not loading.
C9_Witness ==
  /\ page = "labeler"
  /\ labelType = "pd" /\ subjectSpan = NullSpan
  /\ error = "Please select subject words for correct domain"
  /\ ~loading /\ pendingInsert = None /\ dbLabels = {}

\* The row r carries the bounds of the spans subject and object.
CarriesSpans(r, subject, object) ==
  /\ IF subject = NullSpan
     THEN r.subject_start = NullInt /\ r.subject_end = NullInt
     ELSE r.subject_start = subject[1] /\ r.subject_end = subject[2]
  /\ IF object = NullSpan
     THEN r.object_start = NullInt /\ r.object_end = NullInt
     ELSE r.object_start = object[1] /\ r.object_end = object[2]

\* C10: a row the submit writes carries the bounds of the form's spans, a
\* row the edit-save writes carries the bounds of the dialog's spans, null
\* for a span that is not set; so the two bounds of a role are both null or
\* both set in every stored label.
C10_PayloadCarriesSpans ==
  /\ [][\A r \in dbLabels' \ dbLabels :
          /\ page = "labeler" => CarriesSpans(r, subjectSpan, objectSpan)
          /\ page = "my-labels" => CarriesSpans(r, editSubjectSpan, editObjectSpan)]_vars
  /\ [](\A r \in dbLabels :
          /\ (r.subject_start = NullInt) <=> (r.subject_end = NullInt)
          /\ (r.object_start = NullInt) <=> (r.object_end = NullInt))

\* The form has stored a pd label with subject span [0,1] and no object span.
C10_Witness ==
  /\ page = "labeler"
  /\ \E r \in dbLabels :
       /\ r.label_type = "pd"
       /\ r.subject_start = 0 /\ r.subject_end = 1
       /\ r.object_start = NullInt /\ r.object_end = NullInt

\* The tokens at the 0-based indices from .. to that the sentence has, with
\* one space between neighbours.
RECURSIVE TokensJoined(_, _, _)
TokensJoined(tokens, from, to) ==
  IF from > to \/ from >= Len(tokens) THEN <<>>
  ELSE IF from < to /\ from + 1 < Len(tokens)
       THEN tokens[from + 1] \o <<" ">> \o TokensJoined(tokens, from + 1, to)
       ELSE tokens[from + 1]

\* The text an export row must carry for a pair of bounds.
SpanTextOf(text, start, end) ==
  IF start = NullInt \/ end = NullInt THEN None
  ELSE Some(TokensJoined(Split(text), start, end))

\* C11: in every exported row subject_text is the sentence's whitespace-split
\* tokens at the indices subject_start..subject_end inclusive joined by single
\* spaces, null when subject_start or subject_end is null, and object_text
\* likewise; for "The cat sat on the mat" with subject [1,1] and object [5,5]
\* the row carries "cat" and "mat".
C11_ExportSpanText ==
  exportData # None =>
    \A row \in exportData[1] :
      /\ row.subject_text =
           SpanTextOf(row.sentence_text, row.subject_start, row.subject_end)
      /\ row.object_text =
           SpanTextOf(row.sentence_text, row.object_start, row.object_end)
      /\ row.subject_start = NullInt \/ row.subject_end = NullInt
           => row.subject_text = None
      /\ row.object_start = NullInt \/ row.object_end = NullInt
           => row.object_text = None
      /\ ( /\ row.sentence_text = ExampleText
           /\ row.subject_start = 1 /\ row.subject_end = 1
           /\ row.object_start = 5 /\ row.object_end = 5 )
           => /\ row.subject_text = Some(<<"c", "a", "t">>)
              /\ row.object_text = Some(<<"m", "a", "t">>)

\* The example sentence was exported with subject [1,1] and object [5,5].
C11_Witness ==
  /\ exportData # None
  /\ \E row \in exportData[1] :
       /\ row.sentence_text = ExampleText
       /\ row.subject_start = 1 /\ row.subject_end = 1
       /\ row.object_start = 5 /\ row.object_end = 5
       /\ row.subject_text = Some(<<"c", "a", "t">>)
       /\ row.object_text = Some(<<"m", "a", "t">>)

\* What the form shows for a role when a label is submitted: the selector's
\* selected text, nothing when the selector of the role is not rendered.
DisplayedText(rendered, words, span) ==
  IF rendered THEN SelectedText(words, span) ELSE None

\* C12: for every label the form inserts, the span text the export and the
\* My Labels list derive from the stored bounds and the sentence text equals
\* the text the role's selector displayed when the label was submitted.
C12_RoundTrip ==
  [][\A r \in dbLabels' \ dbLabels :
       page = "labeler" =>
         LET text == (CHOOSE x \in dbSentences : x.id = r.sentence_id).text
             words == Split(sentences[currentIndex + 1].text)
             subjectShown == DisplayedText(NeedsSubject(labelType), words, subjectSpan)
             objectShown == DisplayedText(NeedsObject(labelType), words, objectSpan)
         IN /\ ExportSpanText(text, r.subject_start, r.subject_end) = subjectShown
            /\ ExportSpanText(text, r.object_start, r.object_end) = objectShown
            /\ LabelSpanText(Split(text), r.subject_start, r.subject_end) = subjectShown
            /\ LabelSpanText(Split(text), r.object_start, r.object_end) = objectShown]_vars

\* The states of an in-progress label edit of the form.
Empty == labelType = NullStr /\ subjectSpan = NullSpan /\ objectSpan = NullSpan
CategorySelected == labelType # NullStr
ReadyToSubmit ==
  CategorySelected /\ RequiredSpansPresent(labelType, subjectSpan, objectSpan)
SpansPending ==
  CategorySelected /\ ~RequiredSpansPresent(labelType, subjectSpan, objectSpan)
InsertIssued == Len(pendingInsert') > Len(pendingInsert)

\* C13: an edit of the form follows Empty -> CategorySelected ->
\* {SpansPending | ReadyToSubmit} -> Submitted: a span is non-null only while
\* a category is selected, the edit leaves Empty only by the selection of a
\* category, and an insert is issued only from ReadyToSubmit, never from
\* Empty or SpansPending.
C13_EditLifecycle ==
  /\ [](page = "labeler" => (CategorySelected \/ Empty))
  /\ [][page = "labeler" =>
          /\ (Empty /\ ~Empty') => (CategorySelected' /\ ~InsertIssued)
          /\ InsertIssued => (ReadyToSubmit /\ ~Empty /\ ~SpansPending)]_vars

\* An insert issued from ReadyToSubmit with a span was accepted: Submitted.
C13_Witness ==
  /\ page = "labeler" /\ success /\ dbLabels # {}
  /\ ReadyToSubmit /\ subjectSpan # NullSpan

\* C14: while an insert of the form awaits the store's answer the submit
\* button is disabled, and at most one insert of the form is in flight.
C14_OneInsertInFlight ==
  page = "labeler" =>
    /\ Len(pendingInsert) <= 1
    /\ pendingInsert # None => (labelType = NullStr \/ loading)

\* An insert is in flight while a category and spans are selected.
C14_Witness ==
  /\ page = "labeler" /\ Len(pendingInsert) = 1 /\ loading
  /\ labelType # NullStr

\* The answer to a rejected insert is handled in this step.
RejectedInsertResolves ==
  /\ page = "labeler"
  /\ \E k \in DOMAIN pendingInsert :
       ~pendingInsert[k].ok /\ pendingInsert' = RemoveAt(pendingInsert, k)

\* An update or a delete of MyLabelsClient is rejected in this step.
RejectedEditResolves ==
  /\ page = "my-labels"
  /\ lastRequest' # lastRequest
  /\ lastRequest'.error

\* C15: a rejected operation applies no partial state locally: the submit
\* step and the handling of a rejected insert leave the sentence list with
\* its label_counts, the current index, the category and both spans as they
\* were, and a rejected update or delete leaves the local label list as it
\* was.
C15_RejectionChangesNothing ==
  [][/\ (InsertIssued \/ RejectedInsertResolves)
          => UNCHANGED <<sentences, currentIndex, labelType, subjectSpan, objectSpan>>
     /\ RejectedEditResolves => UNCHANGED labels]_vars

\* A rejected insert was handled, and a rejected update or delete.
C15_Witness ==
  \/ /\ page = "labeler" /\ pendingInsert = None
     /\ error = "Failed to submit label. Please try again."
     /\ labelType # NullStr
  \/ /\ page = "my-labels" /\ lastRequest.error /\ labels # {}

\* C16: every rejection of an insert, an update or a delete is shown: when
\* the operation resolves with an error, the view that issued it shows a
\* failure message.
C16_RejectionSurfaced ==
  [][/\ RejectedInsertResolves => error' = "Failed to submit label. Please try again."
     /\ RejectedEditResolves => MyLabelsShowsFailure']_vars

\* C19: a click handled by one selector changes nothing but its own span: a
\* click in the subject selector leaves the object span, the category, the
\* token sequence and everything else unchanged, a click in the object
\* selector likewise with the subject span, in the form and in the edit
\* dialog.
C19_ClickFrame ==
  [][/\ (\E index \in 0..(MaxTokens - 1) : SubjectWordClick(index))
          => UNCHANGED <<objectSpan, labelType, sentences, currentIndex, loading,
                         error, success, pendingInsert, resetTimers, dbVars, editVars>>
     /\ (\E index \in 0..(MaxTokens - 1) : ObjectWordClick(index))
          => UNCHANGED <<subjectSpan, labelType, sentences, currentIndex, loading,
                         error, success, pendingInsert, resetTimers, dbVars, editVars>>
     /\ (\E index \in 0..(MaxTokens - 1) : EditSubjectWordClick(index))
          => UNCHANGED <<editObjectSpan, editLabelType, editingLabel, labels, dbVars,
                         formVars, clientVars>>
     /\ (\E index \in 0..(MaxTokens - 1) : EditObjectWordClick(index))
          => UNCHANGED <<editSubjectSpan, editLabelType, editingLabel, labels, dbVars,
                         formVars, clientVars>>]_vars

\* Both selectors of the form hold a span: each was clicked, the later click
\* with the other span set.
C19_Witness ==
  /\ page = "labeler" /\ labelType = "pdr"
  /\ subjectSpan # NullSpan /\ objectSpan # NullSpan

\* C18: every update and delete the edit flow issues targets a label owned
\* by the session user, and no step changes or removes a label owned by
\* another user.
C18_OwnLabelsOnly ==
  [][/\ (page = "my-labels" /\ lastRequest' # lastRequest)
          => /\ lastRequest'.user_id = sessionUser
             /\ \A r \in dbLabels : r.id = lastRequest'.id => r.user_id = sessionUser
     /\ \A r \in dbLabels : r.user_id # sessionUser => r \in dbLabels']_vars

\* The store accepted an update or a delete of the session user while it
\* holds another user's label.
C18_Witness ==
  /\ page = "my-labels"
  /\ lastRequest.op # "none" /\ ~lastRequest.error
  /\ \E r \in dbLabels : r.user_id # sessionUser

\* The session user has a label on the sentence shown.
CurrentSentenceLabelled ==
  \E r \in dbLabels :
    r.user_id = sessionUser /\ r.sentence_id = sentences[currentIndex + 1].id

\* C17: after any sequence of submits, with Previous and Next navigation and
\* repeated submits on the last sentence, the store holds at most one label
\* per (user, sentence) pair, also where two users labelled one sentence; an
\* insert for a pair that has a label is rejected and leaves the table
\* unchanged.
C17_OneLabelPerUserSentence ==
  /\ [](\A r1, r2 \in dbLabels :
          (r1.user_id = r2.user_id /\ r1.sentence_id = r2.sentence_id) => r1 = r2)
  /\ [][(page = "labeler" /\ InsertIssued /\ CurrentSentenceLabelled)
          => /\ dbLabels' = dbLabels
             /\ ~pendingInsert'[Len(pendingInsert')].ok]_vars

\* Both sentences were labelled in this visit, the user went back to the
\* first one with Previous, and a second submit on it was rejected.
C17_Witness ==
  /\ page = "labeler" /\ Len(sentences) >= 2 /\ currentIndex = 0
  /\ sentences[1].label_count = 1 /\ sentences[2].label_count = 1
  /\ \E r \in dbLabels : r.user_id = OtherUserId /\ r.sentence_id = sentences[1].id
  /\ CurrentSentenceLabelled
  /\ pendingInsert = None
  /\ error = "Failed to submit label. Please try again."

TokenCount(r) ==
  Len(Split((CHOOSE x \in dbSentences : x.id = r.sentence_id).text))

\* start and end are both stored and 0 <= start <= end <= n - 1.
WithinTokens(start, end, n) ==
  start # NullInt /\ end # NullInt /\ 0 <= start /\ start <= end /\ end <= n - 1

\* C21: every span stored with a label lies within the token range of the
\* sentence the label is attached to: 0 <= start <= end <= N - 1, N the
\* number of tokens of that sentence, whatever clicks, category changes,
\* Previous / Next presses and auto-advances came before the submit.
C21_SpanWithinSentence ==
  \A r \in dbLabels :
    /\ r.subject_start # NullInt \/ r.subject_end # NullInt
         => WithinTokens(r.subject_start, r.subject_end, TokenCount(r))
    /\ r.object_start # NullInt \/ r.object_end # NullInt
         => WithinTokens(r.object_start, r.object_end, TokenCount(r))

\* The property that owns the sentence a stored label is attached to.
OwnerProperty(r) == (CHOOSE x \in dbSentences : x.id = r.sentence_id).property_id

\* C22: every label inserted by the labeling page has the property_id of the
\* property that owns the labelled sentence, also when the property is
\* changed while a load of sentences is pending and the loads resolve in
\* any order.
C22_LabelPropertyOwnsSentence ==
  \A r \in dbLabels : r.property_id = OwnerProperty(r)

\* C23: on the labeling page, whenever the sentence list is non-empty,
\* 0 <= currentIndex <= sentences.length - 1, after any interleaving of
\* Previous / Next clicks, reloads and submit completions.
C23_IndexInRange ==
  page = "labeler" /\ Len(sentences) > 0
    => 0 <= currentIndex /\ currentIndex <= Len(sentences) - 1

\* The answer of the one insert in flight arrives and reports success.
InsertSucceeds ==
  /\ Len(pendingInsert) = 1 /\ pendingInsert' = <<>>
  /\ pendingInsert[1].ok

\* The positions of sentence s in the list.
PositionsOf(list, s) == {i \in DOMAIN list : list[i].id = s}

\* C25: when an insert for sentence s succeeds, the local label_count of the
\* list entry for s is incremented by one and every other entry is
\* unchanged, and the page advances to the sentence after s unless s is the
\* last of the list; also when the user navigates or the list is reloaded
\* while the insert is pending.
C25_CountAndAdvance ==
  [][InsertSucceeds =>
       LET s == pendingInsert[1].sentence_id IN
         /\ DOMAIN sentences' = DOMAIN sentences
         /\ \A i \in DOMAIN sentences :
              sentences'[i] = IF sentences[i].id = s
                              THEN [sentences[i] EXCEPT !.label_count = @ + 1]
                              ELSE sentences[i]
         /\ \A i \in PositionsOf(sentences, s) :
              currentIndex' = IF i < Len(sentences) THEN i ELSE currentIndex]_vars

\* The callback of a reset timer runs in this step.
ResetFires ==
  /\ resetTimers' = resetTimers - 1
  /\ UNCHANGED <<clientVars, pendingInsert, pendingLoads>>

\* C24: the reset scheduled 500 ms after a successful submit never discards
\* input made after that submit resolved: a category or span chosen between
\* the submit's completion and the firing of the reset is still in the
\* editing state afterwards.
C24_ResetKeepsLaterInput ==
  [][ResetFires /\ inputAfterSubmit
       => /\ labelType' = labelType
          /\ subjectSpan' = subjectSpan
          /\ objectSpan' = objectSpan]_vars

\* The span the edit dialog shows for stored bounds: null unless both are
\* stored.
StoredSpan(start, end) ==
  IF start # NullInt /\ end # NullInt THEN <<start, end>> ELSE NullSpan

\* The fields an update may change.
EditableFields ==
  {"label_type", "subject_start", "subject_end", "object_start", "object_end"}

\* The first tab's update was accepted in this step.
SaveSucceeds ==
  /\ lastRequest' # lastRequest
  /\ lastRequest'.op = "update" /\ lastRequest'.tab = 1 /\ ~lastRequest'.error

\* Table after differs from table before at most in the editable fields of
\* the row with the given id, which hold the given category and spans.
OnlyEdited(before, after, id, type, subject, object) ==
  /\ {r.id : r \in after} = {r.id : r \in before}
  /\ Cardinality(after) = Cardinality(before)
  /\ \A r \in before : r.id # id => r \in after
  /\ \A r \in before : r.id = id =>
       \E x \in after :
         /\ x.id = id
         /\ DOMAIN x = DOMAIN r
         /\ \A f \in DOMAIN r \ EditableFields : x[f] = r[f]
         /\ x.label_type = type
         /\ StoredSpan(x.subject_start, x.subject_end) = subject
         /\ StoredSpan(x.object_start, x.object_end) = object

\* C26: opening the edit flow on a label initialises the editing state with
\* that label's category and spans (a span is null unless both its bounds
\* are stored) and changes no label; a successful save changes only
\* label_type and the four span fields of the row with that label's id, in
\* the store and in the local list; closing the dialog without saving
\* changes no label.
C26_EditFrame ==
  [][/\ (editingLabel = None /\ editingLabel' # None)
          => LET l == editingLabel'[1] IN
               /\ l \in labels
               /\ editLabelType' = l.label_type
               /\ editSubjectSpan' = StoredSpan(l.subject_start, l.subject_end)
               /\ editObjectSpan' = StoredSpan(l.object_start, l.object_end)
               /\ UNCHANGED <<labels, dbLabels>>
     /\ SaveSucceeds
          => /\ OnlyEdited(dbLabels, dbLabels', lastRequest'.id, editLabelType,
                           editSubjectSpan, editObjectSpan)
             /\ OnlyEdited(labels, labels', lastRequest'.id, editLabelType,
                           editSubjectSpan, editObjectSpan)
     /\ (editingLabel # None /\ editingLabel' = None /\ lastRequest' = lastRequest)
          => UNCHANGED <<labels, dbLabels>>]_vars

\* The first tab saved the user's first label as n, opened with its category
\* and span, while the list holds another label.
C26_Witness ==
  /\ lastRequest.op = "update" /\ lastRequest.tab = 1 /\ ~lastRequest.error
  /\ lastRequest.id = 1
  /\ editingLabel = None
  /\ \E l \in labels : l.id = 1 /\ l.label_type = "n"
  /\ \E r \in dbLabels : r.id = 1 /\ r.label_type = "n"
  /\ \E l \in labels : l.id # 1

\* A delete was accepted in this step.
DeleteSucceeds ==
  /\ lastRequest' # lastRequest
  /\ lastRequest'.op = "delete" /\ ~lastRequest'.error

\* Every row of the table after has the id of a row of the table before.
NoNewRecord(before, after) == \A x \in after : \E r \in before : r.id = x.id

\* C27: after a successful delete the label is absent from the store and
\* from the local list and every other label is unchanged; Removed is
\* terminal: no later step of the session brings a record with that id back
\* into the store or the list, so none updates it.
C27_DeleteTerminal ==
  [][/\ DeleteSucceeds
          => /\ dbLabels' = {r \in dbLabels : r.id # lastRequest'.id}
             /\ labels' = {l \in labels : l.id # lastRequest'.id}
     /\ NoNewRecord(dbLabels, dbLabels')
     /\ NoNewRecord(labels, labels')]_vars

\* After the first tab deleted the user's first label, the second tab's
\* update of that label was accepted: the store and the first tab's list
\* hold the other labels only.
C27_Witness ==
  /\ lastRequest.op = "update" /\ lastRequest.tab = 2 /\ ~lastRequest.error
  /\ lastRequest.id = 1
  /\ \A r \in dbLabels : r.id # 1
  /\ \A l \in labels : l.id # 1
  /\ \E l \in labels : l.id = 3
  /\ \E r \in dbLabels : r.user_id = OtherUserId

\* The update sent by tab t was accepted in this step.
UpdateAccepted(t) ==
  /\ lastRequest' # lastRequest
  /\ lastRequest'.op = "update" /\ lastRequest'.tab = t /\ ~lastRequest'.error

\* The row of the given id, if the table holds it, has the given category
\* and spans.
RowHolds(table, id, type, subject, object) ==
  \A r \in table :
    r.id = id => /\ r.label_type = type
                 /\ r.subject_start = SpanStart(subject)
                 /\ r.subject_end = SpanEnd(subject)
                 /\ r.object_start = SpanStart(object)
                 /\ r.object_end = SpanEnd(object)

\* C28: when two tabs of the same user save the same label, each update is
\* applied whatever the row holds by then: after an accepted update the
\* stored label equals the payload of that update, and the other tab's local
\* copy is not updated.
C28_LastWriteWins ==
  [][/\ UpdateAccepted(1)
          => /\ RowHolds(dbLabels', lastRequest'.id, editLabelType,
                         editSubjectSpan, editObjectSpan)
             /\ UNCHANGED tab2Labels
     /\ UpdateAccepted(2)
          => /\ RowHolds(dbLabels', lastRequest'.id, tab2EditLabelType,
                         tab2EditSubjectSpan, tab2EditObjectSpan)
             /\ UNCHANGED labels]_vars

\* The first tab saved the user's first label as n, then the second tab
\* saved it as p: the store holds p, the first tab's list still holds n.
C28_Witness ==
  /\ lastRequest.op = "update" /\ lastRequest.tab = 2 /\ ~lastRequest.error
  /\ lastRequest.id = 1
  /\ \E r \in dbLabels : r.id = 1 /\ r.label_type = "p"
  /\ \E l \in tab2Labels : l.id = 1 /\ l.label_type = "p"
  /\ \E l \in labels : l.id = 1 /\ l.label_type = "n"

\* The row holds no span bound.
NoSpans(r) ==
  /\ r.subject_start = NullInt /\ r.subject_end = NullInt
  /\ r.object_start = NullInt /\ r.object_end = NullInt

\* C29: every label written to the store with category p or n, by an insert
\* of the form or by an update of the edit dialog, has subject_start,
\* subject_end, object_start and object_end all null, whatever categories
\* and spans were selected earlier in the editing session.
C29_NoSpansUnderPN ==
  [][\A r \in dbLabels' \ dbLabels :
       r.label_type \in {"p", "n"} => NoSpans(r)]_vars

\* The edit dialog's update stored category p on a label.
C29_Witness ==
  /\ page = "my-labels"
  /\ lastRequest.op = "update" /\ ~lastRequest.error
  /\ \E r \in dbLabels : r.id = lastRequest.id /\ r.label_type = "p" /\ NoSpans(r)

\* C30: after every successful submit the editing state eventually returns
\* to Empty with the success flag cleared, the reset timer being allowed to
\* fire; after a failed submit the category and the spans are kept.
C30_ResetAfterSuccess ==
  /\ success ~> (Empty /\ ~success)
  /\ [][RejectedInsertResolves
          => UNCHANGED <<labelType, subjectSpan, objectSpan>>]_vars

\* The reset ran after a successful submit of the first sentence: the form
\* is Empty on the second sentence and no timer is pending.
C30_Witness ==
  /\ Empty /\ ~success /\ resetTimers = 0 /\ pendingInsert = None
  /\ currentIndex = 1
  /\ sentences[1].label_count = 1
  /\ \E r \in dbLabels : r.sentence_id = sentences[1].id

=============================================================================
